---- MODULE Spec2Model ----
(***************************************************************************)
(* A model of the stream-os kernel core: the UHCI driver's master queue,   *)
(* descriptor encoding and controller bring-up (src/src/uhci.rs), the tick *)
(* source and wakeup list, the async mutex and the ARP table               *)
(* (src/src/main.rs), and the packet codec (src/src/net.rs).               *)
(*                                                                         *)
(* A 32-bit word is the record [hi, lo] of its two 16-bit halves, so that  *)
(* every value of a u32 is representable.                                  *)
(***************************************************************************)
EXTENDS Integers, Sequences, FiniteSets, TLC

(* ---------------------------------------------------------------- bounds *)
\* number of heap slots a TransferDescriptorStorage can be allocated in
NumSlots == 3
\* largest number of TDs in one append_work call
MaxWork == 2
\* cap on last_id (u64 in the source, unbounded in practice)
MaxId == 4
\* cap on the tick counter
MaxTick == 2
\* tick_freq() of the periodic interrupt, in Hz
TickFreq == 10
\* high half of the heap addresses of the TD slots
HeapBaseHi == 16
\* number of tasks that use the async mutex
NumTasks == 3
\* cap on the number of contended lock() calls (the arrival tickets)
MaxLocks == 4
\* longest sleep() a task asks for, in tenths of a second
MaxSleep == 2
\* cap on the length of the wakeup list
MaxEntries == 3
\* number of tasks that call sleep()
NumSleepers == 2
\* number of tasks that call wait_for()
NumWaiters == 2
\* longest buffer handed to EthernetFrame::new on its own
MaxEthLen == 23
\* longest buffer handed to Ipv4Frame::new on its own
MaxIpLen == 8
\* longest buffer handed to UdpFrame::new on its own
MaxUdpLen == 14

\* longest input of eth_crc drawn from every byte sequence
MaxCrcLen == 2
\* longest payload handed to generate_ethernet_frame
MaxPayload == 50

\* tick_freq() in Hz in the runs of the controller bring-up
ResetFreq == 200
\* cap on the tick counter in the runs of the controller bring-up
MaxResetTick == 20

\* longest buffer handed to ArpFrame::new on its own
MaxArpLen == 30
\* cap on the tick counter in the runs of the port resets
MaxPortTick == 42

VARIABLES
    qh,           \* master_queue.queue : QueueHead, [head, element] words
    td,           \* memory of the TD slots: slot -> [w0, w1, w2, w3]
    owner,        \* slot -> "free" | "queue" | "caller" (who owns the Box)
    bufs,         \* master_queue.bufs : BTreeMap<u64, Box<..>>, id -> slot
    last_id,      \* Uhci.last_id
    fut,          \* the live UsbFuture: [live, ids], and the boxes submitted
    ret,          \* the Vec returned by the last poll that was Ready
    dropped,      \* history: the futures dropped before they returned Ready
    tick,         \* MonotonicTime counter
    wakeup_list,  \* WakeupList: sequence of [deadline, waker]
    woken,        \* wakers invoked and not yet polled again
    guards,       \* async Mutex: the tasks owning a live MutexGuard
    waiters,      \* async Mutex: FIFO of the tasks suspended in lock()
    ticket,       \* history: task -> arrival number of its pending lock()
    next_ticket,  \* history: number of contended lock() calls so far
    sleeper,      \* task -> [pc, now, d]: its sleep() call, the tick it read
                  \* and the deadline it registered
    arp_table,    \* ArpTable.table : HashMap<IpAddr, MacAddr>
    arp_wait,     \* task -> [pc, ip, mac]: its wait_for(ip) call
    halted,       \* "run", or how the kernel stopped: "exit" | "panic"
    call,         \* the last packet-codec call: [fn, arg, res]
    demo          \* Uhci::demo: [pc, wait, d, writes, port, log, at, enabled],
                  \* where demo stands, its sleep, the register writes of the
                  \* bring-up, the number of reset_port calls begun, the PORTSC
                  \* accesses of the call in progress, the tick of the last
                  \* of them, and what the calls returned

uhci_vars == <<qh, td, owner, bufs, last_id, fut, ret, dropped>>

time_vars == <<tick, wakeup_list>>

mutex_vars == <<guards, waiters, ticket, next_ticket>>

net_vars == <<arp_table, arp_wait, halted, call>>

vars == <<qh, td, owner, bufs, last_id, fut, ret, dropped, tick,
          wakeup_list, woken, guards, waiters, ticket, next_ticket,
          sleeper, arp_table, arp_wait, halted, call, demo>>

(* ------------------------------------------------------------ 32-bit words *)
W(h, l) == [hi |-> h, lo |-> l]

ZeroWord == W(0, 0)

\* GetBits::get_bits(offset, length)
get_bits(w, off, len) ==
    IF off >= 16 THEN (w.hi \div 2^(off - 16)) % 2^len
    ELSE IF off + len <= 16 THEN (w.lo \div 2^off) % 2^len
    ELSE (w.lo \div 2^off) + (w.hi % 2^(off + len - 16)) * 2^(16 - off)

\* SetBits::set_bits(offset, length, val)
set_bits(w, off, len, val) ==
    IF off >= 16 THEN
        W(w.hi - get_bits(w, off, len) * 2^(off - 16) + val * 2^(off - 16), w.lo)
    ELSE IF off + len <= 16 THEN
        W(w.hi, w.lo - get_bits(w, off, len) * 2^off + val * 2^off)
    ELSE
        W((w.hi \div 2^(off + len - 16)) * 2^(off + len - 16) + (val \div 2^(16 - off)),
          (w.lo % 2^off) + (val % 2^(16 - off)) * 2^off)

get_bit(w, i) == get_bits(w, i, 1) = 1

set_bit(w, i, b) == set_bits(w, i, 1, IF b THEN 1 ELSE 0)

(* ------------------------------------------------------------ link pointers *)
LP_TD(p) == [kind |-> "TD", ptr |-> p]

LP_QH(p) == [kind |-> "QH", ptr |-> p]

LP_None == [kind |-> "None", ptr |-> ZeroWord]

\* (ptr as u32) >> 4
Shr4(p) == p.hi * 4096 + (p.lo \div 16)

\* variant: writing a TD link leaves the QH bit as it was
set_link_pointer_sticky(dest, val) ==
    CASE val.kind = "None" -> set_bit(dest, 0, TRUE)
      [] val.kind = "TD" ->
            set_bits(set_bit(dest, 0, FALSE), 4, 28, Shr4(val.ptr))
      [] val.kind = "QH" ->
            set_bits(set_bit(set_bit(dest, 0, FALSE), 1, TRUE), 4, 28, Shr4(val.ptr))

set_link_pointer(dest, val) ==
    CASE val.kind = "None" -> set_bit(dest, 0, TRUE)
      [] val.kind = "TD" ->
            set_bits(set_bit(set_bit(dest, 0, FALSE), 1, FALSE), 4, 28, Shr4(val.ptr))
      [] val.kind = "QH" ->
            set_bits(set_bit(set_bit(dest, 0, FALSE), 1, TRUE), 4, 28, Shr4(val.ptr))

get_link_pointer(source) ==
    IF get_bit(source, 0) THEN LP_None
    ELSE LET ptr == W(source.hi, source.lo - (source.lo % 16))
         IN  IF get_bit(source, 1) THEN LP_QH(ptr) ELSE LP_TD(ptr)

(* ------------------------------------------------------ transfer descriptors *)
Slots == 1..NumSlots

\* the address of the TransferDescriptor boxed in a slot (16-byte aligned)
TdAddr(s) == W(HeapBaseHi, 48 * s)

SlotAt(p) == CHOOSE s \in Slots : TdAddr(s) = p

link_pointer(d) == get_link_pointer(d.w0)

td_set_link_pointer(d, p) == [d EXCEPT !.w0 = set_link_pointer(d.w0, p)]

status(d) == get_bits(d.w1, 16, 8)

set_status(d, v) == [d EXCEPT !.w1 = set_bits(d.w1, 16, 8, v)]

set_low_speed(d, b) == [d EXCEPT !.w1 = set_bit(d.w1, 26, b)]

\* TransferDescriptor([0; 8]); words 4..7 are never used
ZeroTd == [w0 |-> ZeroWord, w1 |-> ZeroWord, w2 |-> ZeroWord, w3 |-> ZeroWord]

\* the results of a call that can fail
Ok(v) == [tag |-> "Ok", val |-> v]

Err(e) == [tag |-> "Err", val |-> e]

\* assert! fails
AssertFailed == [tag |-> "Panic", val |-> "assertion failed"]

spd(d) == get_bit(d.w1, 29)

set_spd(d, val) == [d EXCEPT !.w1 = set_bit(d.w1, 29, val)]

err_counter(d) == get_bits(d.w1, 27, 2)

set_err_counter(d, val) ==
    IF val <= 3 THEN Ok([d EXCEPT !.w1 = set_bits(d.w1, 27, 2, val)])
    ELSE AssertFailed

low_speed(d) == get_bit(d.w1, 26)

isochronus_select(d) == get_bit(d.w1, 25)

set_isochronus_select(d, val) == [d EXCEPT !.w1 = set_bit(d.w1, 25, val)]

interrupt_on_complete(d) == get_bit(d.w1, 24)

set_interrupt_on_complete(d, val) == [d EXCEPT !.w1 = set_bit(d.w1, 24, val)]

actlen(d) == get_bits(d.w1, 0, 11)

set_actlen(d, val) ==
    IF val < 2048 THEN Ok([d EXCEPT !.w1 = set_bits(d.w1, 0, 11, val)])
    ELSE AssertFailed

\* assert!(len <= 1280)
MaxLenAssert == 1280

\* variant: the length is stored as it is
set_maxlen_plain(d, len) ==
    IF len <= MaxLenAssert
    THEN Ok([d EXCEPT !.w2 = set_bits(d.w2, 21, 11, len)])
    ELSE AssertFailed

set_maxlen(d, len) ==
    IF len <= MaxLenAssert
    THEN Ok([d EXCEPT !.w2 =
                  set_bits(d.w2, 21, 11, IF len = 0 THEN 2047 ELSE len - 1)])
    ELSE AssertFailed

maxlen(d) ==
    LET stored == get_bits(d.w2, 21, 11)
    IN  IF stored = 2047 THEN 0 ELSE stored + 1

set_data_toggle(d, val) == [d EXCEPT !.w2 = set_bit(d.w2, 19, val)]

data_toggle(d) == get_bit(d.w2, 19)

\* variant: the field starts one bit higher
set_endpoint_high(d, val) ==
    IF val < 16 THEN Ok([d EXCEPT !.w2 = set_bits(d.w2, 16, 4, val)])
    ELSE AssertFailed

set_endpoint(d, val) ==
    IF val < 16 THEN Ok([d EXCEPT !.w2 = set_bits(d.w2, 15, 4, val)])
    ELSE AssertFailed

endpoint(d) == get_bits(d.w2, 15, 4)

set_address(d, val) ==
    IF val <= 126 THEN Ok([d EXCEPT !.w2 = set_bits(d.w2, 8, 7, val)])
    ELSE AssertFailed

address(d) == get_bits(d.w2, 8, 7)

set_pid(d, val) == [d EXCEPT !.w2 = set_bits(d.w2, 0, 8, val)]

pid(d) == get_bits(d.w2, 0, 8)

set_data(d, ptr) == [d EXCEPT !.w3 = ptr]

td_data(d) == d.w3

\* the match on Pid in generate_td
PidByte(p) ==
    CASE p = "Setup" -> 45
      [] p = "Out" -> 225
      [] p = "In" -> 105

USB_MAX_PACKET_LEN == 1024

\* variant: a buffer of exactly USB_MAX_PACKET_LEN bytes is rejected as well
generate_td_strict(addr, ep, p, buf) ==
    IF buf.len >= USB_MAX_PACKET_LEN THEN Err("InvalidPacketErr")
    ELSE LET d1 == td_set_link_pointer(ZeroTd, LP_None)
             d2 == set_low_speed(d1, TRUE)
             d3 == set_status(d2, 128)
             d4 == set_maxlen(d3, buf.len)
             d5 == IF d4.tag = "Ok" THEN set_address(d4.val, addr) ELSE d4
             d6 == IF d5.tag = "Ok" THEN set_endpoint(d5.val, ep) ELSE d5
         IN  IF d6.tag = "Ok"
             THEN Ok(set_data(set_pid(d6.val, PidByte(p)), buf.ptr))
             ELSE d6

\* generate_td; buf is the length and the address of the Vec
generate_td(addr, ep, p, buf) ==
    IF buf.len > USB_MAX_PACKET_LEN THEN Err("InvalidPacketErr")
    ELSE LET d1 == td_set_link_pointer(ZeroTd, LP_None)
             d2 == set_low_speed(d1, TRUE)
             d3 == set_status(d2, 128)
             d4 == set_maxlen(d3, buf.len)
             d5 == IF d4.tag = "Ok" THEN set_address(d4.val, addr) ELSE d4
             d6 == IF d5.tag = "Ok" THEN set_endpoint(d5.val, ep) ELSE d5
         IN  IF d6.tag = "Ok"
             THEN Ok(set_data(set_pid(d6.val, PidByte(p)), buf.ptr))
             ELSE d6

\* the address of the buffer of the TransferDescriptorStorage in a slot
BufAddr(s) == W(HeapBaseHi + 1, 64 * s)

\* the setup packets of the control transfers are 8 bytes long
\* demo, line 637: the setup packet of a control transfer is 8 bytes long
SetupLen == 8

(* ------------------------------------------------------------- wakeup list *)
\* the waker of the task that drives the UHCI driver
UsbTask == 0

\* WakeupList insertion: kept in deadline order, ties in insertion order
register_wakeup(list, d, w) ==
    LET k == Cardinality({i \in 1..Len(list) : list[i].deadline <= d})
    IN  SubSeq(list, 1, k) \o <<[deadline |-> d, waker |-> w]>>
            \o SubSeq(list, k + 1, Len(list))

\* the entries wakeup_if_neccessary(t) removes and wakes
DueCount(list, t) == Cardinality({i \in 1..Len(list) : list[i].deadline <= t})

\* the entries wakeup_if_neccessary(t) wakes, in the order it wakes them
Fired(list, t) == SubSeq(list, 1, DueCount(list, t))

\* variant: the factor 0.1 is left out, the deadline is one second away
WakeupTick_second(t) == t + TickFreq

\* tick as f32 + 0.1 * tick_freq, cast to usize (exact below 2^24)
WakeupTick(t) == t + (TickFreq \div 10)

\* variant: the interrupt counts two ticks at a time
tick_interrupt_skip(cap) ==
    /\ tick < cap
    /\ tick' = tick + 2
    /\ LET k == DueCount(wakeup_list, tick + 2)
       IN  /\ woken' = woken \cup {wakeup_list[i].waker : i \in 1..k}
           /\ wakeup_list' = SubSeq(wakeup_list, k + 1, Len(wakeup_list))
    /\ UNCHANGED <<qh, td, owner, bufs, last_id, fut, ret, dropped>>
    /\ UNCHANGED <<mutex_vars, sleeper, net_vars>>
    /\ UNCHANGED demo

\* the tick interrupt: increment, then wakeup_if_neccessary(new tick)
tick_interrupt(cap) ==
    /\ tick < cap
    /\ tick' = tick + 1
    /\ LET k == DueCount(wakeup_list, tick + 1)
       IN  /\ woken' = woken \cup {wakeup_list[i].waker : i \in 1..k}
           /\ wakeup_list' = SubSeq(wakeup_list, k + 1, Len(wakeup_list))
    /\ UNCHANGED <<qh, td, owner, bufs, last_id, fut, ret, dropped>>
    /\ UNCHANGED <<mutex_vars, sleeper, net_vars>>
    /\ UNCHANGED demo

\* variant: the list is drained with the counter value before the increment
on_tick_stale ==
    /\ tick < MaxTick
    /\ tick' = tick + 1
    /\ LET k == DueCount(wakeup_list, tick)
       IN  /\ woken' = woken \cup {wakeup_list[i].waker : i \in 1..k}
           /\ wakeup_list' = SubSeq(wakeup_list, k + 1, Len(wakeup_list))
    /\ UNCHANGED <<qh, td, owner, bufs, last_id, fut, ret, dropped>>
    /\ UNCHANGED <<mutex_vars, sleeper, net_vars>>
    /\ UNCHANGED demo

\* variant: the list is drained one tick ahead of the counter
on_tick_early ==
    /\ tick < MaxTick
    /\ tick' = tick + 1
    /\ LET k == DueCount(wakeup_list, tick + 2)
       IN  /\ woken' = woken \cup {wakeup_list[i].waker : i \in 1..k}
           /\ wakeup_list' = SubSeq(wakeup_list, k + 1, Len(wakeup_list))
    /\ UNCHANGED <<qh, td, owner, bufs, last_id, fut, ret, dropped>>
    /\ UNCHANGED <<mutex_vars, sleeper, net_vars>>
    /\ UNCHANGED demo

\* the tick interrupt within the bound of the run
on_tick == tick_interrupt(MaxTick)

(* ------------------------------------------------------------- UHCI driver *)
NoFut == [live |-> FALSE, ids |-> <<>>, work |-> <<>>]

EmptyMap == [k \in {} |-> 0]

MaxOf(S) == CHOOSE m \in S : \A k \in S : k <= m

SeqRange(q) == {q[i] : i \in 1..Len(q)}

\* the boxes a caller's n generate_td calls get from the allocator: the n
\* lowest free slots, in address order (first fit)
FreeWork(n) ==
    LET free == {s \in Slots : owner[s] = "free"}
    IN  {w \in [1..n -> free] :
            /\ \A i, j \in 1..n : i < j => w[i] < w[j]
            /\ \A s \in free : s < w[n] => \E i \in 1..n : w[i] = s}

\* variant: the loop starts one pair late and never links tds[0]
chain_tds_skip(mem, work) ==
    [s \in DOMAIN mem |->
        IF \E i \in 2..(Len(work) - 1) : work[i] = s
        THEN LET i == CHOOSE i \in 2..(Len(work) - 1) : work[i] = s
             IN  td_set_link_pointer(mem[s], LP_TD(TdAddr(work[i + 1])))
        ELSE mem[s]]

chain_tds(mem, work) ==
    [s \in DOMAIN mem |->
        IF \E i \in 1..(Len(work) - 1) : work[i] = s
        THEN LET i == CHOOSE i \in 1..(Len(work) - 1) : work[i] = s
             IN  td_set_link_pointer(mem[s], LP_TD(TdAddr(work[i + 1])))
        ELSE mem[s]]

\* variant: the element link is rewritten without looking at the last TD
integrate_element(mem, q, first) ==
    [td |-> mem,
     qh |-> [q EXCEPT !.element = set_link_pointer(@, LP_TD(first))]]

\* append_work, lines 367-382: where the new chain is hooked in
integrate(mem, q, first) ==
    IF DOMAIN bufs # {} THEN
        LET last == bufs[MaxOf(DOMAIN bufs)]
        IN  IF (status(mem[last]) \div 128) % 2 = 0
            THEN [td |-> mem,
                  qh |-> [q EXCEPT !.element = set_link_pointer(@, LP_TD(first))]]
            ELSE [td |-> [mem EXCEPT ![last] = td_set_link_pointer(@, LP_TD(first))],
                  qh |-> q]
    ELSE [td |-> mem,
          qh |-> [q EXCEPT !.element = set_link_pointer(@, LP_TD(first))]]

\* variant: the ids restart at 0 for every submission
new_ids_zero(n) == [i \in 1..n |-> i - 1]

\* append_work, line 384
new_ids(n) == [i \in 1..n |-> last_id + (i - 1)]

\* BTreeMap::extend: an existing key is overwritten
extend(map, ids, work) ==
    [k \in DOMAIN map \cup SeqRange(ids) |->
        IF k \in SeqRange(ids)
        THEN work[CHOOSE i \in 1..Len(ids) : ids[i] = k]
        ELSE map[k]]

append_work(work, tds) ==
    /\ ~fut.live
    /\ last_id + Len(work) <= MaxId
    /\ LET fresh == [s \in Slots |-> IF s \in SeqRange(work) THEN tds[s] ELSE td[s]]
           r == integrate(chain_tds(fresh, work), qh, TdAddr(work[1]))
           ids == new_ids(Len(work))
       IN  /\ td' = r.td
           /\ qh' = r.qh
           /\ last_id' = last_id + Len(work)
           /\ bufs' = extend(bufs, ids, work)
           /\ fut' = [live |-> TRUE, ids |-> ids, work |-> work]
    /\ owner' = [s \in Slots |-> IF s \in SeqRange(work) THEN "queue" ELSE owner[s]]
    /\ woken' = woken \cup {UsbTask}
    /\ UNCHANGED <<ret, dropped, tick, wakeup_list>>
    /\ UNCHANGED <<mutex_vars, sleeper, net_vars>>

\* get_descriptor and its siblings: every caller builds its descriptors with
\* generate_td(..).expect(..) and only then hands them to append_work, so a
\* refused packet stops the kernel before anything is linked or inserted.
control_transfer(work, len) ==
    /\ halted = "run"
    /\ LET made == [s \in SeqRange(work) |->
                       generate_td(1, 0, "Setup", [len |-> len, ptr |-> BufAddr(s)])]
       IN  IF \E s \in SeqRange(work) : made[s].tag # "Ok"
           THEN /\ halted' = "panic"
                /\ UNCHANGED <<uhci_vars, time_vars, mutex_vars, sleeper, woken>>
                /\ UNCHANGED <<arp_table, arp_wait, call>>
           ELSE append_work(work, [s \in SeqRange(work) |-> made[s].val])
    /\ UNCHANGED demo

\* variant: a TD counts as serviced only when its whole status byte is 0
all_serviced_ok(ids) == \A i \in 1..Len(ids) : status(td[bufs[ids[i]]]) = 0

\* poll, lines 257-274: no tracked TD has bit 23 of word 1 set
all_serviced(ids) == \A i \in 1..Len(ids) : ~get_bit(td[bufs[ids[i]]].w1, 23)

poll_pending ==
    /\ fut.live
    /\ UsbTask \in woken
    /\ ~all_serviced(fut.ids)
    /\ wakeup_list' = register_wakeup(wakeup_list, WakeupTick(tick), UsbTask)
    /\ woken' = woken \ {UsbTask}
    /\ UNCHANGED <<qh, td, owner, bufs, last_id, fut, ret, dropped, tick>>
    /\ UNCHANGED <<mutex_vars, sleeper, net_vars>>
    /\ UNCHANGED demo

\* variant: the boxes are handed back last first
take_reversed(map, ids) ==
    [map |-> [k \in DOMAIN map \ SeqRange(ids) |-> map[k]],
     ret |-> [i \in 1..Len(ids) |-> map[ids[Len(ids) + 1 - i]]]]

\* poll, lines 276-283
take(map, ids) ==
    [map |-> [k \in DOMAIN map \ SeqRange(ids) |-> map[k]],
     ret |-> [i \in 1..Len(ids) |-> map[ids[i]]]]

poll_ready ==
    /\ fut.live
    /\ UsbTask \in woken
    /\ all_serviced(fut.ids)
    /\ LET r == take(bufs, fut.ids)
       IN  /\ bufs' = r.map
           /\ ret' = r.ret
           /\ owner' = [s \in Slots |-> IF s \in SeqRange(r.ret) THEN "caller" ELSE owner[s]]
    /\ fut' = NoFut
    /\ UNCHANGED <<qh, td, last_id, dropped, tick, wakeup_list, woken>>
    /\ UNCHANGED <<mutex_vars, sleeper, net_vars>>
    /\ UNCHANGED demo

\* variant: dropping the future takes its boxes out of the map and frees them
drop_future_reclaims ==
    /\ fut.live
    /\ fut' = NoFut
    /\ dropped' = dropped \cup {fut}
    /\ bufs' = [k \in DOMAIN bufs \ SeqRange(fut.ids) |-> bufs[k]]
    /\ owner' = [s \in Slots |-> IF s \in SeqRange(fut.work) THEN "free" ELSE owner[s]]
    /\ UNCHANGED <<qh, td, last_id, ret, tick, wakeup_list, woken>>
    /\ UNCHANGED <<mutex_vars, sleeper, net_vars>>
    /\ UNCHANGED demo

\* a UsbFuture dropped before it returned Ready (it has no Drop impl)
drop_future ==
    /\ fut.live
    /\ fut' = NoFut
    /\ dropped' = dropped \cup {fut}
    /\ UNCHANGED <<qh, td, owner, bufs, last_id, ret, tick, wakeup_list, woken>>
    /\ UNCHANGED <<mutex_vars, sleeper, net_vars>>
    /\ UNCHANGED demo

\* the caller drops the Vec of boxes that a Ready poll handed back
free_returned ==
    /\ ret # <<>>
    /\ owner' = [s \in Slots |-> IF owner[s] = "caller" THEN "free" ELSE owner[s]]
    /\ ret' = <<>>
    /\ UNCHANGED <<qh, td, bufs, last_id, fut, dropped, tick, wakeup_list, woken>>
    /\ UNCHANGED <<mutex_vars, sleeper, net_vars>>
    /\ UNCHANGED demo

\* status bytes the controller writes back: 0 = success, 0x40 = stalled (both
\* with the active bit cleared), 0x88 = NAK received, still active
HwStatus == {0, 64, 136}

\* the controller services the TD the master QH's element link points at
hw_service(st) ==
    /\ get_link_pointer(qh.element).kind = "TD"
    /\ LET s == SlotAt(get_link_pointer(qh.element).ptr)
       IN  /\ get_bit(td[s].w1, 23)
           /\ td' = [td EXCEPT ![s] = set_status(@, st)]
           /\ qh' = IF st = 0 THEN [qh EXCEPT !.element = td[s].w0] ELSE qh
           /\ td'[s] # td[s]
    /\ UNCHANGED <<owner, bufs, last_id, fut, ret, dropped, tick, wakeup_list, woken>>
    /\ UNCHANGED <<mutex_vars, sleeper, net_vars>>
    /\ UNCHANGED demo

Init ==
    /\ qh = [head |-> set_link_pointer(ZeroWord, LP_None),
             element |-> set_link_pointer(ZeroWord, LP_None)]
    /\ td = [s \in Slots |-> ZeroTd]
    /\ owner = [s \in Slots |-> "free"]
    /\ bufs = EmptyMap
    /\ last_id = 0
    /\ fut = NoFut
    /\ ret = <<>>
    /\ dropped = {}
    /\ tick = 0
    /\ wakeup_list = <<>>
    /\ woken = {}
    /\ guards = <<>>
    /\ waiters = <<>>
    /\ ticket = [t \in 1..NumTasks |-> 0]
    /\ next_ticket = 0
    /\ sleeper = [t \in 1..NumTasks |-> [pc |-> "idle", now |-> 0, d |-> 0]]
    /\ arp_table = EmptyMap
    /\ arp_wait = [t \in 1..NumWaiters |-> [pc |-> "idle", ip |-> <<>>, mac |-> <<>>]]
    /\ halted = "run"
    /\ call = [fn |-> "none", arg |-> <<>>, res |-> [tag |-> "none"]]
    /\ demo = [pc |-> "reset", wait |-> "none", d |-> 0, writes |-> <<>>,
               port |-> 0, log |-> <<>>, at |-> 0, enabled |-> <<>>]

Next ==
    \/ \E n \in 1..MaxWork : \E work \in FreeWork(n) : control_transfer(work, SetupLen)
    \/ poll_pending
    \/ poll_ready
    \/ drop_future
    \/ free_returned
    \/ \E st \in HwStatus : hw_service(st)
    \/ on_tick

Spec == Init /\ [][Next]_vars

(* -------------------------------------------------------------- async mutex *)
Tasks == 1..NumTasks

InSeq(q, x) == \E i \in 1..Len(q) : q[i] = x

Without(q, x) == SelectSeq(q, LAMBDA y : y # x)

\* variant: the task that holds the guard is let in again
mutex_lock_reentrant(t) ==
    /\ ~InSeq(waiters, t)
    /\ sleeper[t].pc = "idle"
    /\ IF (guards = <<>> /\ waiters = <<>>) \/ InSeq(guards, t)
       THEN /\ guards' = Append(guards, t)
            /\ UNCHANGED <<waiters, ticket, next_ticket>>
       ELSE /\ next_ticket < MaxLocks
            /\ waiters' = Append(waiters, t)
            /\ ticket' = [ticket EXCEPT ![t] = next_ticket + 1]
            /\ next_ticket' = next_ticket + 1
            /\ UNCHANGED guards
    /\ UNCHANGED <<woken, uhci_vars, time_vars, sleeper, net_vars>>
    /\ UNCHANGED demo

\* variant: a contended lock() queues at the front
mutex_lock_lifo(t) ==
    /\ ~InSeq(waiters, t)
    /\ sleeper[t].pc = "idle"
    /\ IF guards = <<>> /\ waiters = <<>>
       THEN /\ guards' = Append(guards, t)
            /\ UNCHANGED <<waiters, ticket, next_ticket>>
       ELSE /\ next_ticket < MaxLocks
            /\ waiters' = <<t>> \o waiters
            /\ ticket' = [ticket EXCEPT ![t] = next_ticket + 1]
            /\ next_ticket' = next_ticket + 1
            /\ UNCHANGED guards
    /\ UNCHANGED <<woken, uhci_vars, time_vars, sleeper, net_vars>>
    /\ UNCHANGED demo

\* Mutex::lock(), first poll: the guard at once when uncontended, else the
\* caller joins the FIFO of waiters and is suspended
mutex_lock(t) ==
    /\ ~InSeq(waiters, t)
    /\ sleeper[t].pc = "idle"
    /\ IF guards = <<>> /\ waiters = <<>>
       THEN /\ guards' = Append(guards, t)
            /\ UNCHANGED <<waiters, ticket, next_ticket>>
       ELSE /\ next_ticket < MaxLocks
            /\ waiters' = Append(waiters, t)
            /\ ticket' = [ticket EXCEPT ![t] = next_ticket + 1]
            /\ next_ticket' = next_ticket + 1
            /\ UNCHANGED guards
    /\ UNCHANGED <<woken, uhci_vars, time_vars, sleeper, net_vars>>
    /\ UNCHANGED demo

\* MutexGuard drop: releases and wakes the head waiter
mutex_unlock(t) ==
    /\ InSeq(guards, t)
    /\ ~InSeq(waiters, t)
    /\ guards' = Without(guards, t)
    /\ woken' = IF waiters # <<>> THEN woken \cup {Head(waiters)} ELSE woken
    /\ UNCHANGED <<waiters, ticket, next_ticket>>
    /\ UNCHANGED <<uhci_vars, time_vars, sleeper, net_vars>>
    /\ UNCHANGED demo

\* the executor polls a woken waiter again: the head waiter takes the guard
mutex_resume(t) ==
    /\ InSeq(waiters, t)
    /\ t \in woken
    /\ woken' = woken \ {t}
    /\ IF guards = <<>> /\ Head(waiters) = t
       THEN /\ guards' = Append(guards, t)
            /\ waiters' = Tail(waiters)
            /\ ticket' = [ticket EXCEPT ![t] = 0]
       ELSE UNCHANGED <<guards, waiters, ticket>>
    /\ UNCHANGED <<next_ticket, uhci_vars, time_vars, sleeper, net_vars>>
    /\ UNCHANGED demo

\* variant: the dropped waiter leaves the queue but a wake it had received
\* is not passed on
mutex_cancel_stale(t) ==
    /\ InSeq(waiters, t)
    /\ waiters' = Without(waiters, t)
    /\ ticket' = [ticket EXCEPT ![t] = 0]
    /\ UNCHANGED <<guards, next_ticket, woken>>
    /\ UNCHANGED <<uhci_vars, time_vars, sleeper, net_vars>>
    /\ UNCHANGED demo

\* a lock() future that returned Pending is dropped: the waiter leaves the
\* queue, and if the mutex had been handed to it the next waiter is woken
mutex_cancel(t) ==
    /\ InSeq(waiters, t)
    /\ waiters' = Without(waiters, t)
    /\ ticket' = [ticket EXCEPT ![t] = 0]
    /\ woken' = IF guards = <<>> /\ Head(waiters) = t /\ Tail(waiters) # <<>>
                THEN woken \cup {Head(Tail(waiters))}
                ELSE woken
    /\ UNCHANGED <<guards, next_ticket>>
    /\ UNCHANGED <<uhci_vars, time_vars, sleeper, net_vars>>
    /\ UNCHANGED demo

NextMutex ==
    \/ \E t \in Tasks : mutex_lock(t)
    \/ \E t \in Tasks : mutex_unlock(t)
    \/ \E t \in Tasks : mutex_resume(t)

SpecMutex == Init /\ [][NextMutex]_vars

\* the periodic interrupt keeps firing and the executor polls a woken task
SpecLive ==
    /\ Init
    /\ [][Next]_vars
    /\ WF_vars(on_tick)
    /\ WF_vars(poll_pending)
    /\ WF_vars(poll_ready)

(* -------------------------------------------------------------------- sleep *)
Sleepers == 1..NumSleepers

\* seconds * tick_freq for a sleep of k tenths of a second, cast to usize
SleepTicks(k) == (k * TickFreq) \div 10

\* sleep(): the task reads the tick counter ...
sleep_read(t, k) ==
    /\ sleeper[t].pc = "idle"
    /\ ~InSeq(waiters, t)
    /\ sleeper' = [sleeper EXCEPT ![t] =
                      [pc |-> "read", now |-> tick, d |-> tick + SleepTicks(k)]]
    /\ UNCHANGED <<woken, uhci_vars, time_vars, mutex_vars, net_vars>>
    /\ UNCHANGED demo

\* ... and registers (deadline, waker) with the wakeup list, then yields; the
\* tick interrupt may run in between
sleep_register(t) ==
    /\ sleeper[t].pc = "read"
    /\ Len(wakeup_list) < MaxEntries
    /\ wakeup_list' = register_wakeup(wakeup_list, sleeper[t].d, t)
    /\ sleeper' = [sleeper EXCEPT ![t].pc = "asleep"]
    /\ UNCHANGED <<tick, woken, uhci_vars, mutex_vars, net_vars>>
    /\ UNCHANGED demo

\* the executor polls the woken sleeper: it resumes once tick >= deadline
sleep_resume(t) ==
    /\ sleeper[t].pc = "asleep"
    /\ t \in woken
    /\ woken' = woken \ {t}
    /\ sleeper' = IF tick >= sleeper[t].d
                  THEN [sleeper EXCEPT ![t] = [pc |-> "idle", now |-> 0, d |-> 0]]
                  ELSE sleeper
    /\ UNCHANGED <<uhci_vars, time_vars, mutex_vars, net_vars>>
    /\ UNCHANGED demo

\* the sleep future is dropped before it fired: its entry stays in the list
sleep_drop(t) ==
    /\ sleeper[t].pc = "asleep"
    /\ sleeper' = [sleeper EXCEPT ![t] = [pc |-> "idle", now |-> 0, d |-> 0]]
    /\ UNCHANGED <<woken, uhci_vars, time_vars, mutex_vars, net_vars>>
    /\ UNCHANGED demo

\* the executor polls a task whose waker was invoked on behalf of a future it
\* no longer awaits: the task finds nothing to do
spurious_poll(t) ==
    /\ t \in woken
    /\ sleeper[t].pc # "asleep"
    /\ ~InSeq(waiters, t)
    /\ woken' = woken \ {t}
    /\ UNCHANGED <<uhci_vars, time_vars, mutex_vars, sleeper, net_vars>>
    /\ UNCHANGED demo

NextSleep ==
    \/ \E t \in Sleepers : \E k \in 1..MaxSleep : sleep_read(t, k)
    \/ \E t \in Sleepers : sleep_register(t)
    \/ \E t \in Sleepers : sleep_resume(t)
    \/ on_tick

SpecSleep == Init /\ [][NextSleep]_vars

(* ------------------------------------------------------ controller bring-up *)
\* UsbCmdReg::to_u16
to_u16(cmd) ==
    (IF cmd.max_packet THEN 2^7 ELSE 0) + (IF cmd.configure THEN 2^6 ELSE 0)
        + (IF cmd.software_debug THEN 2^5 ELSE 0)
        + (IF cmd.global_resume THEN 2^4 ELSE 0)
        + (IF cmd.global_suspend THEN 2^3 ELSE 0)
        + (IF cmd.global_reset THEN 2^2 ELSE 0)
        + (IF cmd.host_controller_reset THEN 2^1 ELSE 0)
        + (IF cmd.run THEN 2^0 ELSE 0)

UsbCmdFields ==
    {"max_packet", "configure", "software_debug", "global_resume",
     "global_suspend", "global_reset", "host_controller_reset", "run"}

\* a UsbCmdReg with the fields of the set on, the others off
UsbCmdReg(on) == [f \in UsbCmdFields |-> f \in on]

\* frame_list.as_ptr(): 4 KiB aligned
FrameListAddr == W(HeapBaseHi + 2, 0)

\* io_range.write_16 / write_32: the write, stamped with the tick counter
port_write(writes, reg, val) == Append(writes, [reg |-> reg, val |-> val, at |-> tick])

\* seconds * tick_freq for a sleep of ms milliseconds, cast to usize
ResetSleepTicks(ms) == (ms * ResetFreq) \div 1000

\* reset(): the three command writes, each followed by a sleep
ResetSteps ==
    [reset     |-> [cmd |-> to_u16(UsbCmdReg({"global_reset"})), ms |-> 10,
                    next |-> "unreset"],
     unreset   |-> [cmd |-> to_u16(UsbCmdReg({})), ms |-> 60, next |-> "hostreset"],
     hostreset |-> [cmd |-> to_u16(UsbCmdReg({"host_controller_reset"})), ms |-> 10,
                    next |-> "enable"]]

\* reset(): one write to USBCMD, then sleep() reads the tick counter
reset_write(step) ==
    /\ demo.pc = step
    /\ demo.wait = "none"
    /\ demo' = [demo EXCEPT
                   !.pc = ResetSteps[step].next,
                   !.wait = "read",
                   !.d = tick + ResetSleepTicks(ResetSteps[step].ms),
                   !.writes = port_write(demo.writes, "USBCMD", ResetSteps[step].cmd)]
    /\ UNCHANGED <<woken, uhci_vars, time_vars, mutex_vars, sleeper, net_vars>>

\* ... sleep() registers (deadline, waker) and yields; the tick interrupt may
\* run in between
reset_sleep_register ==
    /\ demo.wait = "read"
    /\ wakeup_list' = register_wakeup(wakeup_list, demo.d, UsbTask)
    /\ demo' = [demo EXCEPT !.wait = "asleep"]
    /\ UNCHANGED <<tick, woken, uhci_vars, mutex_vars, sleeper, net_vars>>

\* ... and the executor polls the woken task: it goes on once tick >= deadline
reset_sleep_resume ==
    /\ demo.wait = "asleep"
    /\ UsbTask \in woken
    /\ woken' = woken \ {UsbTask}
    /\ demo' = IF tick >= demo.d THEN [demo EXCEPT !.wait = "none"] ELSE demo
    /\ UNCHANGED <<uhci_vars, time_vars, mutex_vars, sleeper, net_vars>>

\* variant: the controller is set running before its status is cleared
enable_writes_run_first(writes) ==
    port_write(
        port_write(
            port_write(
                port_write(writes, "FRBASEADD", FrameListAddr),
                "FRNUM", 0),
            "USBCMD", to_u16(UsbCmdReg({"max_packet", "configure", "run"}))),
        "USBSTS", 31)

\* demo, lines 617-620: set_frame_list_offset(); set_frame_number(0);
\* clear_usb_status(); enable_uhci_card()
enable_writes(writes) ==
    port_write(
        port_write(
            port_write(
                port_write(writes, "FRBASEADD", FrameListAddr),
                "FRNUM", 0),
            "USBSTS", 31),
        "USBCMD", to_u16(UsbCmdReg({"max_packet", "configure", "run"})))

\* demo after reset() has returned, up to the first port reset
demo_enable ==
    /\ demo.pc = "enable"
    /\ demo.wait = "none"
    /\ demo' = [demo EXCEPT !.pc = "ports", !.writes = enable_writes(demo.writes)]
    /\ UNCHANGED <<woken, uhci_vars, time_vars, mutex_vars, sleeper, net_vars>>

NextReset ==
    \/ \E step \in DOMAIN ResetSteps : reset_write(step)
    \/ reset_sleep_register
    \/ reset_sleep_resume
    \/ demo_enable
    \/ tick_interrupt(MaxResetTick)

SpecReset == Init /\ [][NextReset]_vars

(* ------------------------------------------------- port reset, enumeration *)
\* demo, line 622: the ports at I/O offsets 0x10 and 0x12
NumPorts == 2

\* the bits of UsbPortStatus
PortBit ==
    [reset |-> 9, low_speed |-> 8, resume_detected |-> 6, port_enable_changed |-> 3,
     port_enabled |-> 2, connected_changed |-> 1, connected |-> 0]

\* UsbPortStatus getters
port_get(v, field) == (v \div 2^PortBit[field]) % 2 = 1

\* UsbPortStatus setters
port_set(v, field, b) ==
    v - (IF port_get(v, field) THEN 2^PortBit[field] ELSE 0)
      + (IF b THEN 2^PortBit[field] ELSE 0)

\* what a read of PORTSC may return: nothing, connected and enabled, every
\* status bit but enabled, enabled alone
PortValues == {0, 5, 971, 4}

port_read(log, v) == Append(log, [op |-> "read", val |-> v])

port_write_16(log, v) == Append(log, [op |-> "write", val |-> v])

\* reset_port, lines 499-509: read, set reset, write, sleep 50 ms
reset_port_set(v) ==
    /\ demo.pc = "ports"
    /\ demo.wait = "none"
    /\ demo.port < NumPorts
    /\ demo' = [demo EXCEPT
                   !.pc = "port_clear",
                   !.port = demo.port + 1,
                   !.log = port_write_16(port_read(<<>>, v), port_set(v, "reset", TRUE)),
                   !.at = tick,
                   !.wait = "read",
                   !.d = tick + ResetSleepTicks(50)]
    /\ UNCHANGED <<woken, uhci_vars, time_vars, mutex_vars, sleeper, net_vars>>

\* variant: the connect change is acknowledged together with the reset clear
port_clear_ack(v) ==
    port_set(
        port_set(
            port_set(
                port_set(
                    port_set(port_set(v, "connected_changed", TRUE), "port_enabled", FALSE),
                    "port_enable_changed", FALSE),
                "resume_detected", FALSE),
            "low_speed", FALSE),
        "reset", FALSE)

\* reset_port, lines 518-523: the value written to end the reset
port_clear(v) ==
    port_set(
        port_set(
            port_set(
                port_set(
                    port_set(port_set(v, "connected_changed", FALSE), "port_enabled", FALSE),
                    "port_enable_changed", FALSE),
                "resume_detected", FALSE),
            "low_speed", FALSE),
        "reset", FALSE)

\* reset_port, lines 511-528: read, clear, write, sleep 5 ms
reset_port_clear(v) ==
    /\ demo.pc = "port_clear"
    /\ demo.wait = "none"
    /\ demo' = [demo EXCEPT
                   !.pc = "port_enable",
                   !.log = port_write_16(port_read(demo.log, v), port_clear(v)),
                   !.at = tick,
                   !.wait = "read",
                   !.d = tick + ResetSleepTicks(5)]
    /\ UNCHANGED <<woken, uhci_vars, time_vars, mutex_vars, sleeper, net_vars>>

\* reset_port, lines 530-545: read, write connect-change, write port-enable,
\* sleep 5 ms
reset_port_enable(v) ==
    /\ demo.pc = "port_enable"
    /\ demo.wait = "none"
    /\ LET ack == port_set(v, "connected_changed", TRUE)
       IN  demo' = [demo EXCEPT
                      !.pc = "port_return",
                      !.log = port_write_16(
                                  port_write_16(port_read(demo.log, v), ack),
                                  port_set(ack, "port_enabled", TRUE)),
                      !.at = tick,
                      !.wait = "read",
                      !.d = tick + ResetSleepTicks(5)]
    /\ UNCHANGED <<woken, uhci_vars, time_vars, mutex_vars, sleeper, net_vars>>

\* variant: an enabled port counts as a device
port_result_enabled(v) == port_get(v, "port_enabled")

\* reset_port, line 552: val.port_enabled() && val.connected()
port_result(v) == port_get(v, "port_enabled") /\ port_get(v, "connected")

\* variant: the port is used whatever reset_port returned
after_reset_port_always(enabled, port) == "set_address"

\* demo, lines 623-627: if !enabled { continue; }
after_reset_port(enabled, port) ==
    IF enabled THEN "set_address" ELSE IF port < NumPorts THEN "ports" ELSE "done"

\* reset_port, lines 547-552, and the caller's test of what it returned
reset_port_return(v) ==
    /\ demo.pc = "port_return"
    /\ demo.wait = "none"
    /\ demo' = [demo EXCEPT
                   !.pc = after_reset_port(port_result(v), demo.port),
                   !.log = port_read(demo.log, v),
                   !.at = tick,
                   !.enabled = Append(demo.enabled, port_result(v))]
    /\ UNCHANGED <<woken, uhci_vars, time_vars, mutex_vars, sleeper, net_vars>>

\* variant: the caller never sets the data toggle
stage_td_plain(stage, ptr) ==
    generate_td(stage.address, 0, stage.pid, [len |-> stage.len, ptr |-> ptr])

\* one TD of a control transfer: generate_td(..).expect(..), and
\* set_data_toggle(true) where the caller asks for it
stage_td(stage, ptr) ==
    LET r == generate_td(stage.address, 0, stage.pid, [len |-> stage.len, ptr |-> ptr])
    IN  IF r.tag = "Ok" /\ stage.toggle THEN Ok(set_data_toggle(r.val, TRUE)) ELSE r

Stage(addr, p, len, toggle) ==
    [address |-> addr, pid |-> p, len |-> len, toggle |-> toggle]

\* Uhci::get_descriptor
Uhci_get_descriptor(addr) ==
    <<Stage(addr, "Setup", 8, FALSE), Stage(addr, "In", 18, FALSE),
      Stage(addr, "Out", 0, TRUE)>>

\* Uhci::set_address
Uhci_set_address(addr) ==
    <<Stage(0, "Setup", 8, FALSE), Stage(0, "In", 0, TRUE)>>

\* Uhci::print_configurations, the transfer of one configuration
Uhci_print_configurations(addr) ==
    <<Stage(1, "Setup", 8, FALSE), Stage(addr, "In", 128, FALSE),
      Stage(addr, "Out", 0, TRUE)>>

\* Uhci::set_configuration
Uhci_set_configuration(addr) ==
    <<Stage(addr, "Setup", 8, FALSE), Stage(addr, "In", 0, TRUE)>>

\* demo, lines 636-645: the HID report poll
demo_get_report ==
    <<Stage(1, "Setup", 8, FALSE), Stage(1, "In", 8, FALSE), Stage(1, "Out", 0, TRUE)>>

\* demo, lines 630-631: const ADDRESS: u8 = 1
ADDRESS == 1

\* demo, line 631: self.set_address(ADDRESS), up to the await of append_work
demo_set_address(work) ==
    /\ demo.pc = "set_address"
    /\ demo.wait = "none"
    /\ halted = "run"
    /\ LET stages == Uhci_set_address(ADDRESS)
           made == [i \in 1..Len(stages) |-> stage_td(stages[i], BufAddr(work[i]))]
       IN  IF \E i \in 1..Len(stages) : made[i].tag # "Ok"
           THEN /\ halted' = "panic"
                /\ UNCHANGED <<uhci_vars, time_vars, mutex_vars, sleeper, woken>>
                /\ UNCHANGED <<arp_table, arp_wait, call, demo>>
           ELSE /\ append_work(work, [s \in SeqRange(work) |->
                                        made[CHOOSE i \in 1..Len(work) : work[i] = s].val])
                /\ demo' = [demo EXCEPT !.pc = "transfer"]

\* the driver after the bring-up at its quickest
InitPorts ==
    /\ qh = [head |-> set_link_pointer(ZeroWord, LP_None),
             element |-> set_link_pointer(ZeroWord, LP_None)]
    /\ td = [s \in Slots |-> ZeroTd]
    /\ owner = [s \in Slots |-> "free"]
    /\ bufs = EmptyMap
    /\ last_id = 0
    /\ fut = NoFut
    /\ ret = <<>>
    /\ dropped = {}
    /\ tick = ResetSleepTicks(10) + ResetSleepTicks(60) + ResetSleepTicks(10)
    /\ wakeup_list = <<>>
    /\ woken = {}
    /\ guards = <<>>
    /\ waiters = <<>>
    /\ ticket = [t \in 1..NumTasks |-> 0]
    /\ next_ticket = 0
    /\ sleeper = [t \in 1..NumTasks |-> [pc |-> "idle", now |-> 0, d |-> 0]]
    /\ arp_table = EmptyMap
    /\ arp_wait = [t \in 1..NumWaiters |-> [pc |-> "idle", ip |-> <<>>, mac |-> <<>>]]
    /\ halted = "run"
    /\ call = [fn |-> "none", arg |-> <<>>, res |-> [tag |-> "none"]]
    /\ demo = [pc |-> "ports", wait |-> "none", d |-> tick,
               writes |->
                   <<[reg |-> "USBCMD", val |-> 4, at |-> 0],
                     [reg |-> "USBCMD", val |-> 0, at |-> ResetSleepTicks(10)],
                     [reg |-> "USBCMD", val |-> 2,
                      at |-> ResetSleepTicks(10) + ResetSleepTicks(60)],
                     [reg |-> "FRBASEADD", val |-> FrameListAddr, at |-> tick],
                     [reg |-> "FRNUM", val |-> 0, at |-> tick],
                     [reg |-> "USBSTS", val |-> 31, at |-> tick],
                     [reg |-> "USBCMD", val |-> 193, at |-> tick]>>,
               port |-> 0, log |-> <<>>, at |-> 0, enabled |-> <<>>]

NextPorts ==
    \/ \E v \in PortValues : reset_port_set(v)
    \/ \E v \in PortValues : reset_port_clear(v)
    \/ \E v \in PortValues : reset_port_enable(v)
    \/ \E v \in PortValues : reset_port_return(v)
    \/ reset_sleep_register
    \/ reset_sleep_resume
    \/ \E work \in FreeWork(Len(Uhci_set_address(ADDRESS))) : demo_set_address(work)
    \/ tick_interrupt(MaxPortTick)

SpecPorts == InitPorts /\ [][NextPorts]_vars

(* ------------------------------------------------------------ packet codec *)
\* A buffer is a sequence of bytes; packet[i] of the source is p[i + 1].
\* an index or a slice out of range panics
Panic == [tag |-> "Panic", val |-> "index out of range"]

\* u16::from_be_bytes(packet[i..i + 2])
be16(p, i) == p[i + 1] * 256 + p[i + 2]

\* &packet[a..b]
slice(p, a, b) == SubSeq(p, a + 1, b)

\* EthernetFrame::has_dot1q
has_dot1q(p) == be16(p, 12) = 33024

\* EthernetFrame::ether_type_offset
ether_type_offset(p) == IF has_dot1q(p) THEN 16 ELSE 12

\* EthernetFrame::payload_offset
payload_offset(p) == ether_type_offset(p) + 2

\* EthernetFrame::ether_type
ether_type(p) == be16(p, ether_type_offset(p))

\* EthernetFrame::payload: the bytes between the ether_type and the FCS
payload(p) == slice(p, ether_type_offset(p) + 2, Len(p) - 4)

\* EthernetFrame::new
EthernetFrame_new(p) ==
    IF \/ Len(p) < 14
       \/ (has_dot1q(p) /\ Len(p) < 14 + 4)
       \/ Len(p) - 4 <= payload_offset(p)
    THEN Err("InvalidEthernetFrame")
    ELSE Ok(p)

\* variant: FRAME_LEN is one byte short
ArpFrame_new_short(p) == IF Len(p) < 27 THEN Err("InvalidArpFrame") ELSE Ok(p)

\* ArpFrame::new
ArpFrame_new(p) == IF Len(p) < 28 THEN Err("InvalidArpFrame") ELSE Ok(p)

\* ArpOperation::try_from(u16): 1 Request, 2 Reply, else UnknownArpOperation(v)
ArpOperation_try_from(value) ==
    IF value = 1 THEN Ok("Request")
    ELSE IF value = 2 THEN Ok("Reply")
    ELSE Err(value)

\* ArpFrame::operation
operation(p) == ArpOperation_try_from(be16(p, 6))

sender_hardware_address(p) == slice(p, 8, 14)

sender_protocol_address(p) == slice(p, 14, 18)

target_hardware_address(p) == slice(p, 18, 24)

target_protocol_address(p) == slice(p, 24, 28)

\* Ipv4Frame::ihl: the low nibble of byte 0
ihl(p) == p[1] % 16

\* Ipv4Frame::length
ipv4_length(p) == ihl(p) * 4

\* variant: a header that fills the whole buffer is rejected as well
Ipv4Frame_new_strict(p) ==
    IF Len(p) = 0 \/ ipv4_length(p) >= Len(p)
    THEN Err("InvalidIpv4Frame")
    ELSE Ok(p)

\* Ipv4Frame::new
Ipv4Frame_new(p) ==
    IF Len(p) = 0 \/ ipv4_length(p) > Len(p)
    THEN Err("InvalidIpv4Frame")
    ELSE Ok(p)

\* Ipv4Frame::protocol: reads packet[9]
protocol(p) ==
    IF Len(p) < 10 THEN Panic
    ELSE IF p[10] = 17 THEN Ok("Udp") ELSE Ok("Unknown")

\* Ipv4Frame::payload: &packet[ihl * 4..]
ipv4_payload(p) == slice(p, ihl(p) * 4, Len(p))

\* UdpFrame::length: reads packet[4..6]
udp_length(p) == be16(p, 4)

\* UdpFrame::new; the error value is built from frame.length(), which reads
\* packet[4..6] whatever the length of the buffer
UdpFrame_new(p) ==
    IF Len(p) < 8 \/ Len(p) < udp_length(p)
    THEN IF Len(p) < 6 THEN Panic ELSE Err("InvalidUdpFrame")
    ELSE Ok(p)

\* UdpFrame::data: &packet[8..length]
data(p) ==
    IF 8 <= udp_length(p) /\ udp_length(p) <= Len(p)
    THEN Ok(slice(p, 8, udp_length(p)))
    ELSE Panic

\* variant: the ether_type is always read at bytes 12-13
parse_packet_untagged(p) ==
    IF EthernetFrame_new(p).tag = "Err" THEN Err("Ethernet")
    ELSE IF be16(p, 12) = 2054
         THEN IF ArpFrame_new(payload(p)).tag = "Err" THEN Err("Arp")
              ELSE Ok([kind |-> "Arp", frame |-> payload(p)])
    ELSE IF be16(p, 12) = 2048
         THEN IF Ipv4Frame_new(payload(p)).tag = "Err" THEN Err("Ipv4")
              ELSE Ok([kind |-> "Ipv4", frame |-> payload(p)])
    ELSE Ok([kind |-> "Unknown", frame |-> <<>>, ether_type |-> be16(p, 12)])

\* parse_packet: [tag, val] with val the inner frame's kind and buffer, and
\* the ether_type for Unknown
parse_packet(p) ==
    IF EthernetFrame_new(p).tag = "Err" THEN Err("Ethernet")
    ELSE IF ether_type(p) = 2054
         THEN IF ArpFrame_new(payload(p)).tag = "Err" THEN Err("Arp")
              ELSE Ok([kind |-> "Arp", frame |-> payload(p)])
    ELSE IF ether_type(p) = 2048
         THEN IF Ipv4Frame_new(payload(p)).tag = "Err" THEN Err("Ipv4")
              ELSE Ok([kind |-> "Ipv4", frame |-> payload(p)])
    ELSE Ok([kind |-> "Unknown", frame |-> <<>>, ether_type |-> ether_type(p)])

\* parse_ipv4
parse_ipv4(p) ==
    IF protocol(p).tag = "Panic" THEN Panic
    ELSE IF protocol(p).val = "Udp"
         THEN LET u == UdpFrame_new(ipv4_payload(p))
              IN  IF u.tag = "Ok" THEN Ok([kind |-> "Udp", frame |-> u.val]) ELSE u
    ELSE Ok([kind |-> "Unknown", frame |-> <<>>])

(* ------------------------------------------------------------- ARP and rx *)
\* STATIC_IP, 192.168.2.2
STATIC_IP == <<192, 168, 2, 2>>

\* REMOTE_IP, 192.168.2.1
REMOTE_IP == <<192, 168, 2, 1>>

\* another host on the network
OtherIp == <<10, 0, 2, 2>>

\* rtl8139.get_mac(): the MAC address of the NIC
OwnMac == <<82, 84, 0, 18, 52, 86>>

\* the MAC address of a peer
PeerMac == <<170, 187, 204, 221, 238, 255>>

ZeroMac == <<0, 0, 0, 0, 0, 0>>

\* u16::to_be_bytes
to_be_bytes(v) == <<v \div 256, v % 256>>

\* variant: the discriminants count from zero
u16_from_zero(op) == IF op = "Request" THEN 0 ELSE 1

\* u16::from(ArpOperation): Request = 1, Reply = 2
u16_from(op) == IF op = "Request" THEN 1 ELSE 2

\* variant: the protocol addresses of sender and target change places
generate_arp_frame_swapped(params) ==
    to_be_bytes(params.hardware_type)
        \o to_be_bytes(params.protocol_type)
        \o <<params.hardware_address_length>>
        \o <<params.protocol_address_length>>
        \o to_be_bytes(u16_from(params.operation))
        \o params.sender_hardware_address
        \o params.target_protocol_address
        \o params.target_hardware_address
        \o params.sender_protocol_address

\* generate_arp_frame
generate_arp_frame(params) ==
    to_be_bytes(params.hardware_type)
        \o to_be_bytes(params.protocol_type)
        \o <<params.hardware_address_length>>
        \o <<params.protocol_address_length>>
        \o to_be_bytes(u16_from(params.operation))
        \o params.sender_hardware_address
        \o params.sender_protocol_address
        \o params.target_hardware_address
        \o params.target_protocol_address

\* ArpFrame::htype
htype(p) == be16(p, 0)

\* ArpFrame::ptype
ptype(p) == be16(p, 2)

\* ArpFrame::hardware_address_length
hardware_address_length(p) == p[5]

\* ArpFrame::protocol_address_length
protocol_address_length(p) == p[6]

\* ArpFrameParams::try_from(&ArpFrame)
ArpFrameParams_try_from(f) ==
    IF operation(f).tag = "Err" THEN operation(f)
    ELSE Ok([hardware_type |-> htype(f),
             protocol_type |-> ptype(f),
             hardware_address_length |-> hardware_address_length(f),
             protocol_address_length |-> protocol_address_length(f),
             operation |-> operation(f).val,
             sender_hardware_address |-> sender_hardware_address(f),
             sender_protocol_address |-> sender_protocol_address(f),
             target_hardware_address |-> target_hardware_address(f),
             target_protocol_address |-> target_protocol_address(f)])

\* a ^ b on values of n bits
RECURSIVE xor_bits(_, _, _)
xor_bits(a, b, n) ==
    IF n = 0 THEN 0
    ELSE ((a + b) % 2) + 2 * xor_bits(a \div 2, b \div 2, n - 1)

\* a ^ b on u32
xor(a, b) == W(xor_bits(a.hi, b.hi, 16), xor_bits(a.lo, b.lo, 16))

\* w >> 1 on u32
shr1(w) == W(w.hi \div 2, (w.lo \div 2) + 32768 * (w.hi % 2))

\* the n low bits of a in reverse order
RECURSIVE rev_bits(_, _)
rev_bits(a, n) ==
    IF n = 0 THEN 0
    ELSE (a % 2) * (2 ^ (n - 1)) + rev_bits(a \div 2, n - 1)

\* u32::reverse_bits
reverse_bits(w) == W(rev_bits(w.lo, 16), rev_bits(w.hi, 16))

\* !0u32
AllOnes == W(65535, 65535)

\* let poly = 0x04c11db7u32.reverse_bits()
poly == reverse_bits(W(1217, 7607))

\* variant: the polynomial is used as written, not reflected
crc_shift_plain(crc) ==
    IF crc.lo % 2 # 0 THEN xor(shr1(crc), W(1217, 7607)) ELSE shr1(crc)

\* one iteration of the inner loop of eth_crc
crc_shift(crc) ==
    IF crc.lo % 2 # 0 THEN xor(shr1(crc), poly) ELSE shr1(crc)

\* the inner loop: for _ in 0..8
RECURSIVE crc_bits(_, _)
crc_bits(crc, n) == IF n = 0 THEN crc ELSE crc_bits(crc_shift(crc), n - 1)

\* the values of a u32
U32 == [hi : 0..65535, lo : 0..65535]

\* the body of the outer loop: crc ^= *b as u32, then the inner loop
crc_byte == [crc \in U32, b \in 0..255 |-> crc_bits(xor(crc, W(0, b)), 8)]

\* eth_crc; loop[crc, a, b] is the outer loop over bytes[a..b] from the value
\* crc on, run as its first half followed by its second half
eth_crc(bytes) ==
    LET loop[crc \in U32, a \in 1..(Len(bytes) + 1), b \in 0..Len(bytes)] ==
            IF a > b THEN crc
            ELSE IF a = b THEN crc_byte[crc, bytes[a]]
            ELSE loop[loop[crc, a, (a + b) \div 2], ((a + b) \div 2) + 1, b]
    IN  xor(loop[AllOnes, 1, Len(bytes)], AllOnes)

\* u32::to_be_bytes
u32_to_be_bytes(w) == to_be_bytes(w.hi) \o to_be_bytes(w.lo)

\* variant: u32::to_le_bytes
u32_to_le_bytes(w) == <<w.lo % 256, w.lo \div 256, w.hi % 256, w.hi \div 256>>

\* ret.resize(n, 0) of a shorter vector
resize(v, n) == v \o [i \in 1..(n - Len(v)) |-> 0]

\* MIN_LENGTH_WITHOUT_CRC = MIN_LENGTH - CRC_SIZE
MIN_LENGTH_WITHOUT_CRC == 64 - 4

\* variant: the FCS is appended least significant byte first
generate_ethernet_frame_le(params) ==
    LET frame == params.dest_mac \o params.source_mac
                   \o to_be_bytes(params.ether_type) \o params.payload
        padded == IF Len(frame) < MIN_LENGTH_WITHOUT_CRC
                  THEN resize(frame, MIN_LENGTH_WITHOUT_CRC) ELSE frame
    IN  padded \o u32_to_le_bytes(eth_crc(padded))

\* generate_ethernet_frame
generate_ethernet_frame(params) ==
    LET frame == params.dest_mac \o params.source_mac
                   \o to_be_bytes(params.ether_type) \o params.payload
        padded == IF Len(frame) < MIN_LENGTH_WITHOUT_CRC
                  THEN resize(frame, MIN_LENGTH_WITHOUT_CRC) ELSE frame
    IN  padded \o u32_to_be_bytes(eth_crc(padded))

\* ArpTable::write_mac: table.insert(ip, mac) under the table lock
write_mac(table, ip, mac) ==
    [x \in DOMAIN table \cup {ip} |-> IF x = ip THEN mac ELSE table[x]]

\* variant: the sender of a Request is learned as well
handle_arp_frame_learn(f, table) ==
    [table |-> IF operation(f).tag = "Ok"
               THEN write_mac(table, sender_protocol_address(f),
                              sender_hardware_address(f))
               ELSE table,
     sent |-> <<>>]

\* handle_arp_frame: the table after the call and the frames handed to
\* rtl8139.write as EthernetFrameParams
handle_arp_frame(f, table) ==
    LET op == operation(f)
    IN  IF op.tag = "Ok" /\ op.val = "Reply"
        THEN [table |-> write_mac(table, sender_protocol_address(f),
                                  sender_hardware_address(f)),
              sent |-> <<>>]
        ELSE IF op.tag = "Err"
        THEN [table |-> table, sent |-> <<>>]
        ELSE IF /\ target_hardware_address(f) # OwnMac
                /\ target_protocol_address(f) # STATIC_IP
        THEN [table |-> table, sent |-> <<>>]
        ELSE [table |-> table,
              sent |-> <<[dest_mac |-> sender_hardware_address(f),
                          source_mac |-> OwnMac,
                          ether_type |-> 2054,
                          payload |-> generate_arp_frame(
                              [hardware_type |-> be16(f, 0),
                               protocol_type |-> be16(f, 2),
                               hardware_address_length |-> f[5],
                               protocol_address_length |-> f[6],
                               operation |-> "Reply",
                               sender_hardware_address |-> OwnMac,
                               sender_protocol_address |-> STATIC_IP,
                               target_hardware_address |-> sender_hardware_address(f),
                               target_protocol_address |-> sender_protocol_address(f)])]>>]

\* "exit\n"
ExitData == <<101, 120, 105, 116, 10>>

\* "test\n"
TestData == <<116, 101, 115, 116, 10>>

\* the body of handle_packet: [table, sent, halt] after the call
dispatch(packet, table) ==
    LET quiet == [table |-> table, sent |-> <<>>, halt |-> "run"]
        dead  == [table |-> table, sent |-> <<>>, halt |-> "panic"]
        pkt   == parse_packet(packet)
    IN  IF pkt.tag = "Err" THEN quiet
        ELSE IF pkt.val.kind = "Arp"
        THEN LET r == handle_arp_frame(pkt.val.frame, table)
             IN  [table |-> r.table, sent |-> r.sent, halt |-> "run"]
        ELSE IF pkt.val.kind = "Ipv4"
        THEN LET ip == parse_ipv4(pkt.val.frame)
             IN  IF ip.tag = "Panic" THEN dead
                 ELSE IF ip.tag = "Err" THEN quiet
                 ELSE IF ip.val.kind = "Udp"
                 THEN LET d == data(ip.val.frame)
                      IN  IF d.tag = "Panic" THEN dead
                          ELSE IF d.val = ExitData
                          THEN [table |-> table, sent |-> <<>>, halt |-> "exit"]
                          ELSE quiet
                 ELSE quiet
        ELSE quiet

(* ------------------------------------------------------- received frames *)
\* an Ethernet frame as the NIC hands it over: header, optional 802.1Q tag,
\* ether_type, body and four FCS bytes
RxFrame(tagged, etype, body) ==
    OwnMac \o PeerMac \o (IF tagged THEN <<129, 0, 0, 1>> ELSE <<>>)
        \o to_be_bytes(etype) \o body \o <<0, 0, 0, 0>>

\* the 28 bytes of an ARP frame with any operation value
ArpBytes(op, spa, tha, tpa) ==
    <<0, 1, 8, 0, 6, 4>> \o to_be_bytes(op) \o PeerMac \o spa \o tha \o tpa

\* a UDP datagram with the given declared length
UdpBytes(declared, d) == <<150, 30, 23, 112>> \o to_be_bytes(declared) \o <<0, 0>> \o d

\* an IPv4 header of 4 * hl bytes (first byte 0x40 + hl) and its payload
Ipv4Bytes(hl, proto, body) ==
    [i \in 1..(4 * hl) |-> IF i = 1 THEN 64 + hl ELSE IF i = 10 THEN proto ELSE 0]
        \o body

ArpFrames ==
    {RxFrame(FALSE, 2054, ArpBytes(op, spa, tha, tpa)) :
        op \in {1, 2, 3}, spa \in {REMOTE_IP, OtherIp},
        tha \in {ZeroMac, OwnMac}, tpa \in {STATIC_IP, OtherIp}}
    \cup {RxFrame(TRUE, 2054, ArpBytes(2, OtherIp, OwnMac, STATIC_IP))}

Ipv4Frames ==
    {RxFrame(FALSE, 2048, Ipv4Bytes(5, proto, UdpBytes(declared, d))) :
        proto \in {17, 6}, declared \in {4, 13, 300}, d \in {TestData, ExitData}}

\* frames cut short at one of the layers
ShortFrames ==
    {SubSeq(RxFrame(FALSE, 2054, ArpBytes(2, REMOTE_IP, OwnMac, STATIC_IP)), 1, n) :
        n \in {0, 13, 14, 18, 45}}
    \cup {RxFrame(TRUE, 2054, <<>>),
          RxFrame(FALSE, 34525, TestData),
          RxFrame(FALSE, 2048, <<>>),
          RxFrame(FALSE, 2048, <<69, 0, 0, 33>>),
          RxFrame(FALSE, 2048, <<17, 17, 17, 17>>),
          RxFrame(FALSE, 2048, Ipv4Bytes(5, 17, <<150, 30, 23>>)),
          RxFrame(FALSE, 2048, Ipv4Bytes(5, 17, <<150, 30, 23, 112, 0, 13, 0>>))}

RxFrames == ArpFrames \cup Ipv4Frames \cup ShortFrames

\* recv_loop: rtl8139.read hands one frame to handle_packet. The table lock
\* is free whenever a task is polled, as no task keeps it across an await.
handle_packet(packet) ==
    /\ halted = "run"
    /\ guards = <<>> /\ waiters = <<>>
    /\ LET r == dispatch(packet, arp_table)
       IN  /\ arp_table' = r.table
           /\ halted' = r.halt
           /\ call' = [fn |-> "handle_packet", arg |-> packet,
                       res |-> [tag |-> r.halt, val |-> r.sent]]
    /\ UNCHANGED <<woken, uhci_vars, time_vars, mutex_vars, sleeper, arp_wait>>
    /\ UNCHANGED demo

(* -------------------------------------------------------- ArpReadyFuture *)
Waiters == 1..NumWaiters

\* ArpTable::wait_for: the future is created; it is polled when awaited
wait_for(t, ip) ==
    /\ halted = "run"
    /\ arp_wait[t].pc \in {"idle", "ready"}
    /\ arp_wait' = [arp_wait EXCEPT ![t] = [pc |-> "created", ip |-> ip, mac |-> <<>>]]
    /\ UNCHANGED <<woken, uhci_vars, time_vars, mutex_vars, sleeper>>
    /\ UNCHANGED <<arp_table, halted, call>>
    /\ UNCHANGED demo

\* ArpReadyFuture::poll, on the first poll or after the task's waker was
\* invoked: with the lock free the guard is taken, the table is looked up and
\* the guard is dropped; with the lock taken the pending lock() is dropped.
\* Neither Pending path leaves the waker anywhere.
ArpReadyFuture_poll(t) ==
    /\ halted = "run"
    /\ \/ arp_wait[t].pc = "created"
       \/ arp_wait[t].pc = "pending" /\ t \in woken
    /\ woken' = woken \ {t}
    /\ arp_wait' =
          IF guards = <<>> /\ waiters = <<>> /\ arp_wait[t].ip \in DOMAIN arp_table
          THEN [arp_wait EXCEPT ![t].pc = "ready",
                                ![t].mac = arp_table[arp_wait[t].ip]]
          ELSE [arp_wait EXCEPT ![t].pc = "pending"]
    /\ UNCHANGED <<uhci_vars, time_vars, mutex_vars, sleeper>>
    /\ UNCHANGED <<arp_table, halted, call>>
    /\ UNCHANGED demo

NextArp ==
    \/ \E t \in Waiters : \E ip \in {REMOTE_IP, OtherIp} : wait_for(t, ip)
    \/ \E t \in Waiters : ArpReadyFuture_poll(t)
    \/ \E packet \in ArpFrames : handle_packet(packet)

\* the executor polls a task that awaits a future it has not polled yet or
\* whose waker was invoked, and the NIC keeps delivering frames
SpecArp ==
    /\ Init
    /\ [][NextArp]_vars
    /\ \A t \in Waiters : WF_vars(ArpReadyFuture_poll(t))

(* ------------------------------------------------------------ codec calls *)
EthBuf(n, t) ==
    [i \in 1..n |-> IF i = 13 THEN t[1] ELSE IF i = 14 THEN t[2] ELSE 0]

EthBufs ==
    {EthBuf(n, t) : n \in 0..MaxEthLen, t \in {<<129, 0>>, <<8, 6>>, <<8, 0>>, <<0, 0>>}}

Ipv4Buf(n, b) == [i \in 1..n |-> b]

Ipv4Bufs == {Ipv4Buf(n, b) : n \in 0..MaxIpLen, b \in {17, 18, 64, 69, 255}}

UdpBuf(n, d) ==
    [i \in 1..n |-> IF i = 5 THEN d \div 256 ELSE IF i = 6 THEN d % 256 ELSE 100 + i]

UdpBufs ==
    {UdpBuf(n, d) : n \in 0..MaxUdpLen, d \in {0, 4, 7, 8, 9, 13, 14, 15, 300}}

\* EthernetFrame::new on a buffer of its own, as test_ethernet_frame_validation
test_ethernet_frame_validation(b) ==
    /\ call' = [fn |-> "EthernetFrame::new", arg |-> b, res |-> EthernetFrame_new(b)]
    /\ UNCHANGED <<woken, uhci_vars, time_vars, mutex_vars, sleeper>>
    /\ UNCHANGED <<arp_table, arp_wait, halted>>
    /\ UNCHANGED demo

\* Ipv4Frame::new on a buffer of its own, as test_ipv4_frame_validation
test_ipv4_frame_validation(b) ==
    /\ call' = [fn |-> "Ipv4Frame::new", arg |-> b, res |-> Ipv4Frame_new(b)]
    /\ UNCHANGED <<woken, uhci_vars, time_vars, mutex_vars, sleeper>>
    /\ UNCHANGED <<arp_table, arp_wait, halted>>
    /\ UNCHANGED demo

\* UdpFrame::new on a buffer of its own, as test_udp_frame_validation
test_udp_frame_validation(b) ==
    /\ call' = [fn |-> "UdpFrame::new", arg |-> b, res |-> UdpFrame_new(b)]
    /\ UNCHANGED <<woken, uhci_vars, time_vars, mutex_vars, sleeper>>
    /\ UNCHANGED <<arp_table, arp_wait, halted>>
    /\ UNCHANGED demo

\* UdpFrame::data of an accepted buffer, as test_udp_frame_parsing
test_udp_frame_parsing(b) ==
    /\ UdpFrame_new(b).tag = "Ok"
    /\ call' = [fn |-> "UdpFrame::data", arg |-> b, res |-> data(b)]
    /\ UNCHANGED <<woken, uhci_vars, time_vars, mutex_vars, sleeper>>
    /\ UNCHANGED <<arp_table, arp_wait, halted>>
    /\ UNCHANGED demo

\* parse_ipv4 on a frame that Ipv4Frame::new accepted
test_parse_ipv4(b) ==
    /\ Ipv4Frame_new(b).tag = "Ok"
    /\ call' = [fn |-> "parse_ipv4", arg |-> b, res |-> parse_ipv4(b)]
    /\ UNCHANGED <<woken, uhci_vars, time_vars, mutex_vars, sleeper>>
    /\ UNCHANGED <<arp_table, arp_wait, halted>>
    /\ UNCHANGED demo

\* IPv4 buffers with a whole header and a UDP datagram, a short one or
\* nothing after it
Ipv4Datagrams ==
    {Ipv4Bytes(5, proto, body) :
        proto \in {17, 1},
        body \in {<<>>, <<0, 1, 0, 2, 0>>, UdpBuf(8, 8), UdpBuf(9, 8), UdpBuf(8, 9)}}

NextNet ==
    \/ \E b \in EthBufs : test_ethernet_frame_validation(b)
    \/ \E b \in Ipv4Bufs : test_ipv4_frame_validation(b)
    \/ \E b \in Ipv4Bufs \cup Ipv4Datagrams : test_parse_ipv4(b)
    \/ \E b \in UdpBufs : test_udp_frame_validation(b)
    \/ \E b \in UdpBufs : test_udp_frame_parsing(b)
    \/ \E packet \in RxFrames : handle_packet(packet)

SpecNet == Init /\ [][NextNet]_vars

(* ------------------------------------------------- parsing and generation *)
\* The functions below are pure: one call in a behaviour covers every call,
\* so each action acts once (call.fn = "none"), on an input of its own.
\* parse_packet on a frame as it is received
recv_parse_packet(b) ==
    /\ call.fn = "none"
    /\ call' = [fn |-> "parse_packet", arg |-> b, res |-> parse_packet(b)]
    /\ UNCHANGED <<woken, uhci_vars, time_vars, mutex_vars, sleeper>>
    /\ UNCHANGED <<arp_table, arp_wait, halted>>
    /\ UNCHANGED demo

\* the byte ranges packet[a..b] the accessors of ArpFrame read
ArpFieldRange ==
    [htype |-> <<0, 2>>, ptype |-> <<2, 4>>,
     hardware_address_length |-> <<4, 5>>, protocol_address_length |-> <<5, 6>>,
     operation |-> <<6, 8>>,
     sender_hardware_address |-> <<8, 14>>, sender_protocol_address |-> <<14, 18>>,
     target_hardware_address |-> <<18, 24>>, target_protocol_address |-> <<24, 28>>]

\* &packet[a..b] of an accessor: the slice, or the panic of a range that
\* ends beyond the buffer
arp_read(p, f) ==
    IF ArpFieldRange[f][2] <= Len(p)
    THEN Ok(slice(p, ArpFieldRange[f][1], ArpFieldRange[f][2]))
    ELSE Panic

\* the frame of the tests
ARP_REQUEST ==
    <<255, 255, 255, 255, 255, 255, 82, 85, 10, 0, 2, 2, 8, 6, 0,
      1, 8, 0, 6, 4, 0, 1, 82, 85, 10, 0, 2, 2, 10, 0,
      2, 2, 0, 0, 0, 0, 0, 0, 192, 168, 122, 55, 0, 0, 0,
      0, 0, 0, 0, 0, 0, 0, 0, 0, 0, 0, 0, 0, 0, 0>>

\* buffers of every length up to the bound, each byte telling its place, and
\* the payload of ARP_REQUEST whole, resized to 28 and popped to 27
ArpBufs ==
    {[i \in 1..n |-> (7 * i) % 256] : n \in 0..MaxArpLen}
        \cup {SubSeq(payload(ARP_REQUEST), 1, n) : n \in {27, 28, Len(payload(ARP_REQUEST))}}

\* ArpFrame::new on a buffer of its own, and every accessor of the frame
test_arp_frame_validation(b) ==
    /\ call.fn = "none"
    /\ call' = [fn |-> "ArpFrame::new", arg |-> b,
                res |-> [new |-> ArpFrame_new(b),
                         reads |-> IF ArpFrame_new(b).tag = "Ok"
                                   THEN [f \in DOMAIN ArpFieldRange |-> arp_read(b, f)]
                                   ELSE <<>>]]
    /\ UNCHANGED <<woken, uhci_vars, time_vars, mutex_vars, sleeper>>
    /\ UNCHANGED <<arp_table, arp_wait, halted>>
    /\ UNCHANGED demo

\* ArpOperation::try_from on every u16, and the way back
test_arp_operation_parse(v) ==
    /\ call.fn = "none"
    /\ LET r == ArpOperation_try_from(v)
       IN  call' = [fn |-> "ArpOperation::try_from", arg |-> v,
                    res |-> [op |-> r,
                             back |-> IF r.tag = "Ok" THEN u16_from(r.val) ELSE -1]]
    /\ UNCHANGED <<woken, uhci_vars, time_vars, mutex_vars, sleeper>>
    /\ UNCHANGED <<arp_table, arp_wait, halted>>
    /\ UNCHANGED demo

\* MAC addresses of generated frames
Broadcast == <<255, 255, 255, 255, 255, 255>>

\* ArpFrameParams values: Ethernet/IPv4 ARP with every choice of operation
\* and addresses, and frames with other type and length fields
ArpParams ==
    [hardware_type : {1},
     protocol_type : {2048},
     hardware_address_length : {6},
     protocol_address_length : {4},
     operation : {"Request", "Reply"},
     sender_hardware_address : {OwnMac, Broadcast},
     sender_protocol_address : {STATIC_IP, OtherIp},
     target_hardware_address : {ZeroMac, PeerMac},
     target_protocol_address : {REMOTE_IP, STATIC_IP}]
    \cup
    [hardware_type : {65535},
     protocol_type : {258},
     hardware_address_length : {255},
     protocol_address_length : {0},
     operation : {"Request", "Reply"},
     sender_hardware_address : {Broadcast},
     sender_protocol_address : {OtherIp},
     target_hardware_address : {PeerMac},
     target_protocol_address : {STATIC_IP}]

\* an ARP frame is generated, framed, parsed again and decoded
arp_round_trip(params, dest, source) ==
    /\ call.fn = "none"
    /\ LET sent == generate_ethernet_frame(
                       [dest_mac |-> dest, source_mac |-> source,
                        ether_type |-> 2054,
                        payload |-> generate_arp_frame(params)])
           parsed == parse_packet(sent)
       IN  call' = [fn |-> "arp_round_trip",
                    arg |-> [params |-> params, dest_mac |-> dest,
                             source_mac |-> source],
                    res |-> IF parsed.tag = "Ok" /\ parsed.val.kind = "Arp"
                            THEN ArpFrameParams_try_from(parsed.val.frame)
                            ELSE Err("no Arp variant")]
    /\ UNCHANGED <<woken, uhci_vars, time_vars, mutex_vars, sleeper>>
    /\ UNCHANGED <<arp_table, arp_wait, halted>>
    /\ UNCHANGED demo

\* b"123456789"
CheckInput == <<49, 50, 51, 52, 53, 54, 55, 56, 57>>

\* inputs of eth_crc: the check input, every short sequence over a few
\* bytes, and two of the length of a frame
CrcInputs ==
    {CheckInput}
        \cup UNION {[1..k -> {0, 1, 49, 128, 255}] : k \in 0..MaxCrcLen}
        \cup {[i \in 1..n |-> (37 * i) % 256] : n \in {60, 64}}

\* eth_crc on an input of its own, as test_crc
test_crc(bytes) ==
    /\ call.fn = "none"
    /\ call' = [fn |-> "eth_crc", arg |-> bytes, res |-> eth_crc(bytes)]
    /\ UNCHANGED <<woken, uhci_vars, time_vars, mutex_vars, sleeper>>
    /\ UNCHANGED <<arp_table, arp_wait, halted>>
    /\ UNCHANGED demo

\* EthernetFrameParams values: payloads around the padding threshold of 46
EthParams ==
    [dest_mac : {Broadcast, PeerMac},
     source_mac : {OwnMac},
     ether_type : {2054, 2048, 65535},
     payload : {[i \in 1..n |-> ((7 * i) % 255) + 1] :
                   n \in {0, 10, 45, 46, 47, MaxPayload}}]

\* generate_ethernet_frame for a frame to send
send_frame(params) ==
    /\ call.fn = "none"
    /\ call' = [fn |-> "generate_ethernet_frame", arg |-> params,
                res |-> generate_ethernet_frame(params)]
    /\ UNCHANGED <<woken, uhci_vars, time_vars, mutex_vars, sleeper>>
    /\ UNCHANGED <<arp_table, arp_wait, halted>>
    /\ UNCHANGED demo

NextCodec ==
    /\ call.fn = "none"
    /\ \/ \E b \in RxFrames \cup EthBufs : recv_parse_packet(b)
       \/ \E b \in ArpBufs : test_arp_frame_validation(b)
       \/ \E v \in 0..65535 : test_arp_operation_parse(v)
       \/ \E bytes \in CrcInputs : test_crc(bytes)
       \/ \E params \in EthParams : send_frame(params)
       \/ \E params \in ArpParams :
              \E macs \in {<<Broadcast, OwnMac>>, <<PeerMac, Broadcast>>, <<OwnMac, ZeroMac>>} :
                  arp_round_trip(params, macs[1], macs[2])

SpecCodec == Init /\ [][NextCodec]_vars

(* --------------------------------------------------- descriptor encoding *)
\* words a link or a descriptor word can hold before it is written
OldWords == {ZeroWord, W(0, 1), W(0, 2), W(0, 12), W(0, 15), AllOnes, W(57005, 48879)}

\* 16-byte aligned addresses, 0xDEADBE00 among them
AlignedAddrs == {W(57005, 48640), ZeroWord, W(0, 16), W(65535, 65520), TdAddr(1)}

LinkPointers ==
    {LP_None} \cup {LP_TD(a) : a \in AlignedAddrs} \cup {LP_QH(a) : a \in AlignedAddrs}

\* set_link_pointer on a word and get_link_pointer of the result, as
\* test_td_link_pointer_td, _qh and _none
test_td_link_pointer(dest, val) ==
    /\ call.fn = "none"
    /\ call' = [fn |-> "set_link_pointer",
                arg |-> [dest |-> dest, val |-> val],
                res |-> [word |-> set_link_pointer(dest, val),
                         link |-> get_link_pointer(set_link_pointer(dest, val))]]
    /\ UNCHANGED <<woken, uhci_vars, time_vars, mutex_vars, sleeper>>
    /\ UNCHANGED <<arp_table, arp_wait, halted>>
    /\ UNCHANGED demo

\* descriptors a field is set in: all zero, all ones, and the descriptor
\* of test_td_full_descriptor
OldTds ==
    {ZeroTd,
     [w0 |-> AllOnes, w1 |-> AllOnes, w2 |-> AllOnes, w3 |-> AllOnes],
     [w0 |-> W(57005, 48864), w1 |-> W(7296, 0), w2 |-> W(224, 9005), w3 |-> W(0, 4096)]}

\* the values each setter is given
FieldValues ==
    [spd |-> BOOLEAN,
     err_counter |-> 0..3,
     low_speed |-> BOOLEAN,
     isochronus_select |-> BOOLEAN,
     interrupt_on_complete |-> BOOLEAN,
     status |-> 0..255,
     actlen |-> 0..2047,
     data_toggle |-> BOOLEAN,
     endpoint |-> 0..15,
     address |-> 0..126,
     pid |-> 0..255,
     data |-> OldWords]

\* the setter of a field
set_field(field, d, val) ==
    CASE field = "spd" -> Ok(set_spd(d, val))
      [] field = "err_counter" -> set_err_counter(d, val)
      [] field = "low_speed" -> Ok(set_low_speed(d, val))
      [] field = "isochronus_select" -> Ok(set_isochronus_select(d, val))
      [] field = "interrupt_on_complete" -> Ok(set_interrupt_on_complete(d, val))
      [] field = "status" -> Ok(set_status(d, val))
      [] field = "actlen" -> set_actlen(d, val)
      [] field = "data_toggle" -> Ok(set_data_toggle(d, val))
      [] field = "endpoint" -> set_endpoint(d, val)
      [] field = "address" -> set_address(d, val)
      [] field = "pid" -> Ok(set_pid(d, val))
      [] field = "data" -> Ok(set_data(d, val))

\* the getter of a field
get_field(field, d) ==
    CASE field = "spd" -> spd(d)
      [] field = "err_counter" -> err_counter(d)
      [] field = "low_speed" -> low_speed(d)
      [] field = "isochronus_select" -> isochronus_select(d)
      [] field = "interrupt_on_complete" -> interrupt_on_complete(d)
      [] field = "status" -> status(d)
      [] field = "actlen" -> actlen(d)
      [] field = "data_toggle" -> data_toggle(d)
      [] field = "endpoint" -> endpoint(d)
      [] field = "address" -> address(d)
      [] field = "pid" -> pid(d)
      [] field = "data" -> td_data(d)

\* a setter on a descriptor and the getter on the result, as test_td_spd
\* and the tests after it
test_td_field(field, d, val) ==
    /\ call.fn = "none"
    /\ LET r == set_field(field, d, val)
       IN  call' = [fn |-> "set_field",
                    arg |-> [field |-> field, td |-> d, val |-> val],
                    res |-> IF r.tag = "Ok"
                            THEN [tag |-> "Ok", td |-> r.val,
                                  got |-> get_field(field, r.val)]
                            ELSE r]
    /\ UNCHANGED <<woken, uhci_vars, time_vars, mutex_vars, sleeper>>
    /\ UNCHANGED <<arp_table, arp_wait, halted>>
    /\ UNCHANGED demo

\* set_maxlen on a descriptor and maxlen on the result, as test_td_maxlen
test_td_maxlen(d, len) ==
    /\ call.fn = "none"
    /\ LET r == set_maxlen(d, len)
       IN  call' = [fn |-> "set_maxlen",
                    arg |-> [td |-> d, len |-> len],
                    res |-> IF r.tag = "Ok"
                            THEN [tag |-> "Ok", td |-> r.val, got |-> maxlen(r.val)]
                            ELSE r]
    /\ UNCHANGED <<woken, uhci_vars, time_vars, mutex_vars, sleeper>>
    /\ UNCHANGED <<arp_table, arp_wait, halted>>
    /\ UNCHANGED demo

\* the buffer lengths the callers use (8, 18, 0, 0x80) and those around the
\* two limits of generate_td and set_maxlen
PacketLens ==
    {0, 1, SetupLen, 18, 128, USB_MAX_PACKET_LEN - 1, USB_MAX_PACKET_LEN,
     USB_MAX_PACKET_LEN + 1, MaxLenAssert, MaxLenAssert + 1, 65536}

\* device addresses and endpoints, a u8 each, at and beyond the setters' limits
TdAddresses == {0, 1, 126, 127, 255}

TdEndpoints == {0, 1, 15, 16}

Pids == {"Setup", "Out", "In"}

test_generate_td(addr, ep, p, buf) ==
    /\ call.fn = "none"
    /\ call' = [fn |-> "generate_td",
                arg |-> [address |-> addr, endpoint |-> ep, pid |-> p, buf |-> buf],
                res |-> generate_td(addr, ep, p, buf)]
    /\ UNCHANGED <<woken, uhci_vars, time_vars, mutex_vars, sleeper>>
    /\ UNCHANGED <<arp_table, arp_wait, halted>>
    /\ UNCHANGED demo

NextXfer ==
    \/ \E addr \in TdAddresses : \E ep \in TdEndpoints : \E p \in Pids :
           \E len \in PacketLens :
               test_generate_td(addr, ep, p, [len |-> len, ptr |-> BufAddr(1)])
    \/ \E n \in 1..MaxWork : \E work \in FreeWork(n) :
           \E len \in PacketLens : control_transfer(work, len)

SpecXfer == Init /\ [][NextXfer]_vars

\* Uhci::new, line 320: the frame list has 1024 entries
FrameListLen == 1024

\* what alloc::alloc returned: the allocation is never initialised, so every
\* word is whatever the memory held; here word j holds odd, the others fill
PriorMemory ==
    {[i \in 0..(FrameListLen - 1) |-> IF i = j THEN odd ELSE fill] :
        j \in {0, FrameListLen \div 2, FrameListLen - 1}, odd \in OldWords, fill \in OldWords}

\* where the Box of the master QueueStorage may lie (16-byte aligned)
QueueAddrs == {W(HeapBaseHi, 16), W(57005, 48640)}

\* Uhci::new: the master queue head and the frame list it builds
Uhci_new(mem, queue) ==
    /\ call.fn = "none"
    /\ LET master_queue_head ==
               [head |-> set_link_pointer(ZeroWord, LP_None),
                element |-> set_link_pointer(ZeroWord, LP_None)]
           frame_list == [i \in DOMAIN mem |-> set_link_pointer(mem[i], LP_QH(queue))]
       IN  call' = [fn |-> "Uhci_new",
                    arg |-> [mem |-> mem, queue |-> queue],
                    res |-> [frame_list |-> frame_list, master_queue |-> master_queue_head]]
    /\ UNCHANGED <<woken, uhci_vars, time_vars, mutex_vars, sleeper>>
    /\ UNCHANGED <<arp_table, arp_wait, halted>>
    /\ UNCHANGED demo

NextNew == \E mem \in PriorMemory : \E queue \in QueueAddrs : Uhci_new(mem, queue)

SpecNew == Init /\ [][NextNew]_vars

NextTd ==
    \/ \E dest \in OldWords : \E val \in LinkPointers : test_td_link_pointer(dest, val)
    \/ \E field \in DOMAIN FieldValues :
           \E d \in OldTds : \E val \in FieldValues[field] : test_td_field(field, d, val)
    \/ \E d \in OldTds : \E len \in 0..(MaxLenAssert + 1) : test_td_maxlen(d, len)

SpecTd == Init /\ [][NextTd]_vars

(* ------------------------------------------------------------- cancellation *)
\* tasks that lock the mutex and sleep, and drop either future while it is
\* pending
NextDrop ==
    \/ \E t \in Sleepers : mutex_lock(t)
    \/ \E t \in Sleepers : mutex_unlock(t)
    \/ \E t \in Sleepers : mutex_resume(t)
    \/ \E t \in Sleepers : mutex_cancel(t)
    \/ sleep_read(1, 1)
    \/ sleep_register(1)
    \/ sleep_resume(1)
    \/ sleep_drop(1)
    \/ \E t \in Sleepers : spurious_poll(t)
    \/ on_tick

SpecDrop == Init /\ [][NextDrop]_vars

(* ------------------------------------------------------- steps and helpers *)
\* the kinds of step, told apart by what they change
AppendStep == last_id' > last_id

ReadyStep == fut.live /\ ~fut'.live /\ dropped' = dropped

DropStep == dropped' # dropped

PendingStep == Len(wakeup_list') > Len(wakeup_list)

\* bit 23 of word 1: the controller has not serviced the TD in slot s yet
Active(s) == (td[s].w1.hi \div 128) % 2 = 1

InMap(s) == \E k \in DOMAIN bufs : bufs[k] = s

\* the slots reached from a link word by following TD links, n steps at most
RECURSIVE Reach(_, _)
Reach(word, n) ==
    IF n = 0 \/ get_link_pointer(word).kind # "TD" THEN {}
    ELSE LET s == SlotAt(get_link_pointer(word).ptr)
         IN  {s} \cup Reach(td[s].w0, n - 1)

(* ----------------------------------------------------------------- claims *)

\* C1: a future dropped before Ready leaves each of its TD storages owned by
\* the map under its id and chained as append_work chained it; an id leaves
\* the map only in a poll that returns Ready, with every TD of that
\* submission having bit 23 clear.
C1_DroppedKept ==
    \A f \in dropped : \A i \in 1..Len(f.ids) :
        /\ f.ids[i] \in DOMAIN bufs
        /\ bufs[f.ids[i]] = f.work[i]
        /\ owner[f.work[i]] = "queue"
        /\ i < Len(f.ids) => link_pointer(td[f.work[i]]) = LP_TD(TdAddr(f.work[i + 1]))

C1_OnlyReady ==
    (DOMAIN bufs \ DOMAIN bufs' # {}) =>
        /\ ReadyStep
        /\ DOMAIN bufs \ DOMAIN bufs' = SeqRange(fut.ids)
        /\ \A i \in 1..Len(fut.ids) : ~Active(bufs[fut.ids[i]])

C1_DropKeeps == DropStep => UNCHANGED <<bufs, td, qh, owner>>

\* C1: dropped submissions stay in the map, chained; ids leave the map only
\* in a Ready poll of a fully serviced submission; a drop changes nothing.
C1_Thm == []C1_DroppedKept /\ [][C1_OnlyReady /\ C1_DropKeeps]_vars

\* a 2-TD submission was dropped with its first TD still active, and a later
\* submission has been appended since
C1_Wit ==
    \E f \in dropped :
        /\ Len(f.ids) = 2
        /\ Active(f.work[1])
        /\ last_id > f.ids[2] + 1

\* C2: whenever the master QH's element link is not Terminate, every TD
\* reachable from it through TD link pointers is present in the queue's map.
C2_Inv ==
    get_link_pointer(qh.element).kind # "None" =>
        \A s \in Reach(qh.element, NumSlots) : InMap(s)

\* C3: a poll that finds bit 23 clear in every TD it tracks returns Ready with
\* exactly the TD storages of its submission, in submission order (ascending
\* id), removes exactly those ids from the map and leaves every other map
\* entry untouched.
C3_Ready ==
    ReadyStep =>
        /\ ret' = fut.work
        /\ \A i, j \in 1..Len(fut.ids) : i < j => fut.ids[i] < fut.ids[j]
        /\ DOMAIN bufs' = DOMAIN bufs \ SeqRange(fut.ids)
        /\ \A k \in DOMAIN bufs' : bufs'[k] = bufs[k]
        /\ \A s \in Slots :
              owner'[s] = IF s \in SeqRange(fut.work) THEN "caller" ELSE owner[s]
        /\ \A i \in 1..Len(fut.ids) : ~Active(bufs[fut.ids[i]])

\* C3: every Ready poll hands back exactly its submission, in order.
C3_Thm == [][C3_Ready]_vars

\* a 2-TD submission has been returned while TDs of another one stay in the map
C3_Wit == Len(ret) = 2 /\ DOMAIN bufs # {} /\ ~fut.live /\ owner[ret[1]] = "caller"

\* C4: poll returns Pending if and only if a tracked TD has bit 23 set; a TD
\* with bit 23 clear and error bits set does not delay Ready, is handed back
\* with that status, and the driver neither re-links nor resubmits it.
C4_Poll ==
    /\ PendingStep =>
          /\ fut.live
          /\ \E i \in 1..Len(fut.ids) : Active(bufs[fut.ids[i]])
          /\ UNCHANGED <<td, qh, bufs, fut>>
    /\ ReadyStep =>
          /\ \A i \in 1..Len(fut.ids) : ~Active(bufs[fut.ids[i]])
          /\ ret' = fut.work
          /\ UNCHANGED <<td, qh>>
    /\ \A s \in Slots :
          (owner[s] = "caller" /\ owner'[s] = "caller") => td'[s] = td[s]

C4_Returned == \A s \in Slots : owner[s] = "caller" => ~InMap(s)

\* C4: Pending exactly when a tracked TD is active; returned TDs are left alone.
C4_Thm == []C4_Returned /\ [][C4_Poll]_vars

\* a stalled TD (status 0x40) has been handed back to the caller
C4_Wit ==
    \E i \in 1..Len(ret) : owner[ret[i]] = "caller" /\ status(td[ret[i]]) = 64

\* C5: a poll that returns Pending has registered a wakeup for the current
\* tick plus 0.1 * tick_freq and has removed nothing from the map; a live
\* future that is not woken always has such an entry pending, the tick that
\* reaches the deadline wakes it, and once all its TDs have bit 23 clear it
\* returns Ready (unless it is dropped first).
UsbEntry(e, t) ==
    /\ e.waker = UsbTask
    /\ 10 * (e.deadline - t) <= TickFreq
    /\ TickFreq < 10 * (e.deadline - t) + 10

C5_Pending ==
    PendingStep =>
        /\ UNCHANGED <<bufs, td, qh, owner, fut>>
        /\ \E i \in 1..Len(wakeup_list') :
              /\ UsbEntry(wakeup_list'[i], tick)
              /\ wakeup_list =
                    SubSeq(wakeup_list', 1, i - 1)
                        \o SubSeq(wakeup_list', i + 1, Len(wakeup_list'))

C5_Tick ==
    tick' > tick =>
        \A i \in 1..Len(wakeup_list) :
            wakeup_list[i].deadline <= tick' => wakeup_list[i].waker \in woken'

C5_Armed ==
    (fut.live /\ UsbTask \notin woken) =>
        \E i \in 1..Len(wakeup_list) :
            /\ wakeup_list[i].waker = UsbTask
            /\ wakeup_list[i].deadline > tick
            /\ 10 * (wakeup_list[i].deadline - tick) <= TickFreq

C5_AllClear ==
    /\ fut.live
    /\ \A i \in 1..Len(fut.work) : ~Active(fut.work[i])
    /\ \/ UsbTask \in woken
       \/ \E i \in 1..Len(wakeup_list) :
             wakeup_list[i].waker = UsbTask /\ wakeup_list[i].deadline <= MaxTick

\* C5: Pending registers the 100 ms wakeup and keeps the map; the future is
\* woken by the tick at its deadline and returns Ready once all is serviced.
C5_Thm ==
    /\ []C5_Armed
    /\ [][C5_Pending /\ C5_Tick]_vars
    /\ (C5_AllClear ~> ~fut.live)

\* a future that returned Pending waits for its wakeup while the controller
\* has meanwhile cleared bit 23 of all its TDs
C5_Wit ==
    /\ fut.live
    /\ UsbTask \notin woken
    /\ \A i \in 1..Len(fut.work) : ~Active(fut.work[i])
    /\ \E i \in 1..Len(wakeup_list) : wakeup_list[i].deadline = tick + 1

\* C6: append_work points the master QH's element link at the first new TD
\* when the map is empty or the TD with the highest id has bit 23 clear;
\* otherwise it points that TD's link at the first new TD and leaves the
\* element link unchanged.
C6_Append ==
    AppendStep =>
        LET first == LP_TD(TdAddr(fut'.work[1]))
        IN  IF DOMAIN bufs = {}
            THEN get_link_pointer(qh'.element) = first
            ELSE LET last == bufs[MaxOf(DOMAIN bufs)]
                 IN  IF ~Active(last)
                     THEN /\ get_link_pointer(qh'.element) = first
                          /\ td'[last] = td[last]
                     ELSE /\ link_pointer(td'[last]) = first
                          /\ qh' = qh

\* C6: every append_work hooks the new chain in as stated above.
C6_Thm == [][C6_Append]_vars

\* the new chain hangs off the still active last TD of a dropped submission
C6_Wit ==
    /\ fut.live
    /\ \E f \in dropped :
          /\ Active(f.work[Len(f.work)])
          /\ link_pointer(td[f.work[Len(f.work)]]) = LP_TD(TdAddr(fut.work[1]))
          /\ get_link_pointer(qh.element) = LP_TD(TdAddr(f.work[1]))

\* C7: after append_work(tds), tds[i] links to tds[i+1] for every i but the
\* last, and the last TD's link is Terminate.
C7_Chain ==
    AppendStep =>
        LET w == fut'.work
        IN  \A i \in 1..Len(w) :
                link_pointer(td'[w[i]]) =
                    IF i < Len(w) THEN LP_TD(TdAddr(w[i + 1])) ELSE LP_None

\* C7: every append_work leaves its TDs chained forward, the last Terminate.
C7_Thm == [][C7_Chain]_vars

\* a chain of MaxWork TDs has just been appended and not been polled yet
C7_Wit ==
    /\ fut.live
    /\ Len(fut.work) = MaxWork
    /\ UsbTask \in woken
    /\ \A i \in 1..Len(fut.work) : Active(fut.work[i])
    /\ link_pointer(td[fut.work[1]]) = LP_TD(TdAddr(fut.work[2]))

\* C8: append_work gives its n TDs the ids last_id .. last_id+n-1 in
\* submission order and advances last_id by n; every key of the map is below
\* last_id, last_id never decreases, and an insertion overwrites no entry.
C8_Append ==
    /\ AppendStep =>
          LET ids == fut'.ids
              w == fut'.work
          IN  /\ Len(ids) = Len(w)
              /\ \A i \in 1..Len(ids) : ids[i] = last_id + (i - 1)
              /\ last_id' = last_id + Len(ids)
              /\ SeqRange(ids) \cap DOMAIN bufs = {}
              /\ DOMAIN bufs' = DOMAIN bufs \cup SeqRange(ids)
              /\ \A i \in 1..Len(ids) : bufs'[ids[i]] = w[i]
              /\ \A k \in DOMAIN bufs : bufs'[k] = bufs[k]
    /\ last_id' >= last_id

C8_Keys == \A k \in DOMAIN bufs : k < last_id

\* C8: ids are contiguous from last_id, never reused, never overwritten.
C8_Thm == []C8_Keys /\ [][C8_Append]_vars

\* several submissions, one dropped and one completed, have used up the ids
C8_Wit == last_id = MaxId /\ dropped # {} /\ ret # <<>> /\ fut.live

\* C9: at most one guard of the async Mutex exists at any instant; a lock()
\* issued while a guard exists, also by the task that holds it, produces no
\* second guard.
C9_OneGuard == Len(guards) <= 1

C9_NoSecond == guards # <<>> => Len(guards') <= Len(guards)

\* C9: never more than one guard, and no second guard while one exists.
C9_Thm == []C9_OneGuard /\ [][C9_NoSecond]_vars

\* the holder has called lock() again and is queued behind another waiter
C9_Wit ==
    /\ Len(guards) = 1
    /\ Len(waiters) >= 2
    /\ InSeq(waiters, guards[1])

\* C10: contended lock() calls are served in arrival order: dropping the
\* guard wakes the head waiter, the guard next goes to the waiter that
\* arrived first, after the unlock woke it, and a newcomer gets the guard
\* only when nobody waits.
C10_Fifo ==
    /\ (Len(guards') < Len(guards) /\ waiters # <<>>) => Head(waiters) \in woken'
    /\ Len(guards') > Len(guards) =>
          LET t == guards'[Len(guards')]
          IN  IF ticket[t] = 0
              THEN \A u \in Tasks : ticket[u] = 0
              ELSE /\ \A u \in Tasks : ticket[u] # 0 => ticket[t] <= ticket[u]
                   /\ guards = <<>>
                   /\ t \in woken

\* C10: every unlock wakes the head waiter and every guard is granted in
\* arrival order.
C10_Thm == [][C10_Fifo]_vars

\* the first waiter has been served while the second one still waits
C10_Wit ==
    /\ Len(guards) = 1
    /\ next_ticket >= 2
    /\ \A u \in Tasks : ticket[u] # 1
    /\ \E u \in Tasks : ticket[u] = 2 /\ InSeq(waiters, u)

(* ---------------------------------------------------------------- C11, C12 *)
TickStep == tick' # tick

RegisterStep == Len(wakeup_list') > Len(wakeup_list)

Count(list, e) == Cardinality({i \in 1..Len(list) : list[i] = e})

ResumeStep(t) ==
    sleeper[t].pc = "asleep" /\ sleeper'[t].pc = "idle" /\ woken' # woken

\* C11: an on_tick adds one to the counter, wakes and removes every entry whose
\* deadline is <= the new counter, keeps every other entry and wakes nobody
\* else; this holds of entries registered with a tick read before an on_tick
\* that ran in between as well.
C11_Tick ==
    TickStep =>
        /\ tick' = tick + 1
        /\ \A i \in 1..Len(wakeup_list) :
              LET e == wakeup_list[i]
              IN  IF e.deadline <= tick'
                  THEN Count(wakeup_list', e) = 0 /\ e.waker \in woken'
                  ELSE Count(wakeup_list', e) = Count(wakeup_list, e)
        /\ \A w \in woken' \ woken :
              \E i \in 1..Len(wakeup_list) :
                  wakeup_list[i].waker = w /\ wakeup_list[i].deadline <= tick'

\* C11: no other step removes an entry, so a due entry is woken once, by the
\* first on_tick after its registration whose counter reaches its deadline.
C11_Keep ==
    ~TickStep =>
        \A i \in 1..Len(wakeup_list) :
            Count(wakeup_list', wakeup_list[i]) >= Count(wakeup_list, wakeup_list[i])

\* C11: a sleeper has not resumed while the counter is below its deadline, and
\* it registers the deadline computed from the tick it read.
C11_Resume ==
    \A t \in Sleepers :
        /\ ResumeStep(t) => tick >= sleeper[t].d /\ sleeper[t].d >= sleeper[t].now
        /\ (sleeper[t].pc = "read" /\ sleeper'[t].pc = "asleep") =>
              Count(wakeup_list', [deadline |-> sleeper[t].d, waker |-> t])
                = Count(wakeup_list, [deadline |-> sleeper[t].d, waker |-> t]) + 1

\* C11: every wakeup-list entry is woken exactly once, by the first on_tick
\* after its registration whose incremented counter is >= its deadline, and
\* never earlier.
C11_Thm == [][C11_Tick /\ C11_Keep /\ C11_Resume]_vars

\* an on_tick ran between reading the tick and registering, and the entry was
\* woken by the first on_tick after the registration
C11_Wit ==
    \E t \in Sleepers :
        /\ sleeper[t].pc = "asleep"
        /\ t \in woken
        /\ sleeper[t].d > sleeper[t].now
        /\ tick > sleeper[t].d
        /\ Count(wakeup_list, [deadline |-> sleeper[t].d, waker |-> t]) = 0

\* C12: the list is in deadline order
C12_Sorted ==
    \A i, j \in 1..Len(wakeup_list) :
        i < j => wakeup_list[i].deadline <= wakeup_list[j].deadline

\* C12: a registration goes behind every entry with the same or an earlier
\* deadline and keeps the order of the others
C12_Insert ==
    RegisterStep =>
        \E k \in 0..Len(wakeup_list) :
            /\ Len(wakeup_list') = Len(wakeup_list) + 1
            /\ SubSeq(wakeup_list', 1, k) = SubSeq(wakeup_list, 1, k)
            /\ SubSeq(wakeup_list', k + 2, Len(wakeup_list'))
                 = SubSeq(wakeup_list, k + 1, Len(wakeup_list))
            /\ \A i \in 1..k : wakeup_list[i].deadline <= wakeup_list'[k + 1].deadline
            /\ \A i \in (k + 1)..Len(wakeup_list) :
                  wakeup_list[i].deadline > wakeup_list'[k + 1].deadline

\* C12: the counter is incremented first; the wakers invoked are those of all
\* entries with deadline <= the new counter, front to back, so in
\* non-decreasing deadline order; the entries behind them stay
C12_Drain ==
    TickStep =>
        LET f == Fired(wakeup_list, tick')
        IN  /\ tick' = tick + 1
            /\ \A i \in 1..Len(f) : f[i].deadline <= tick'
            /\ \A i, j \in 1..Len(f) : i < j => f[i].deadline <= f[j].deadline
            /\ wakeup_list = f \o wakeup_list'
            /\ \A i \in 1..Len(wakeup_list') : wakeup_list'[i].deadline > tick'
            /\ woken' = woken \cup {f[i].waker : i \in 1..Len(f)}

\* C12: within one on_tick the counter is incremented first and the due
\* entries are woken in deadline order, ties in insertion order.
C12_Thm == []C12_Sorted /\ [][C12_Insert /\ C12_Drain]_vars

\* two sleepers with deadlines d1 < d2 were woken by on_ticks, d1's first
C12_Wit ==
    \E t, u \in Sleepers :
        /\ sleeper[t].pc = "asleep" /\ sleeper[u].pc = "asleep"
        /\ sleeper[t].d < sleeper[u].d
        /\ tick = sleeper[u].d
        /\ u \in woken
        /\ Len(wakeup_list) = 0

(* --------------------------------------------------------------------- C13 *)
CancelStep(t) ==
    InSeq(waiters, t) /\ ~InSeq(waiters', t) /\ guards' = guards

PollStep(t) == t \in woken /\ t \notin woken'

Holds(t) == InSeq(guards, t)

\* C13: the mutex is never left free with waiters and nobody woken to take it
C13_NotBlocked ==
    (guards = <<>> /\ waiters # <<>>) => Head(waiters) \in woken

\* C13: dropping a pending lock() takes that waiter out of the queue and
\* changes the place of no other task
C13_Cancel ==
    \A t \in Sleepers :
        CancelStep(t) =>
            /\ waiters' = Without(waiters, t)
            /\ woken \subseteq woken'
            /\ UNCHANGED <<sleeper, wakeup_list, tick>>

\* C13: after the holder unlocked, the woken head waiter acquires when it is
\* polled, and a later lock() of the free mutex acquires at once
C13_Acquire ==
    \A t \in Sleepers :
        /\ (PollStep(t) /\ guards = <<>> /\ waiters # <<>> /\ Head(waiters) = t)
              => guards' = <<t>> /\ waiters' = Tail(waiters)
        /\ (~Holds(t) /\ Holds(t)') => guards = <<>> /\ guards' = <<t>>
        /\ (guards = <<>> /\ waiters = <<>> /\ guards' # guards) => Len(guards') = 1

\* C13: the poll of a task woken on behalf of a future it dropped changes
\* the place of no other task, takes the mutex from no holder and ends no
\* sleep before its deadline
C13_Harmless ==
    \A t \in Sleepers :
        PollStep(t) =>
            /\ \A u \in Sleepers \ {t} :
                  /\ sleeper'[u] = sleeper[u]
                  /\ Holds(u)' = Holds(u)
                  /\ InSeq(waiters', u) = InSeq(waiters, u)
            /\ (sleeper[t].pc = "asleep" /\ sleeper'[t].pc = "idle")
                  => tick >= sleeper[t].d
            /\ UNCHANGED <<wakeup_list, tick>>

\* C13: a dropped mutex waiter or wakeup-list waiter is tolerated: the mutex
\* is not left blocked, remaining and later lockers acquire it, and the wake
\* of a dropped waiter affects no other task.
C13_Thm ==
    /\ []C13_NotBlocked
    /\ [][C13_Cancel /\ C13_Acquire /\ C13_Harmless]_vars

\* task 1 dropped a sleep whose entry is still listed; another task dropped
\* its lock() after the mutex had been handed to it, and the wake went on to
\* task 1, now the head waiter
C13_Wit ==
    /\ guards = <<>>
    /\ waiters = <<1>>
    /\ 1 \in woken
    /\ sleeper[1].pc = "idle"
    /\ Len(wakeup_list) > 0
    /\ \E u \in Sleepers \ {1} : u \in woken /\ ~InSeq(waiters, u)

(* ---------------------------------------------------------------- C14..C16 *)
Pending(t) == arp_wait[t].pc = "pending"

\* C14: once write_mac(ip, mac) has completed, a task whose wait_for(ip) had
\* returned Pending is woken and its wait_for resolves to mac; wait_for never
\* resolves while ip is absent from the table.
C14_Claim ==
    /\ [][\A t \in Waiters :
            (/\ Pending(t)
             /\ arp_wait[t].ip \notin DOMAIN arp_table
             /\ arp_wait[t].ip \in DOMAIN arp_table') => t \in woken']_vars
    /\ \A t \in Waiters :
          (Pending(t) /\ arp_wait[t].ip \in DOMAIN arp_table)
              ~> (arp_wait[t].pc = "ready"
                    /\ arp_wait[t].mac = arp_table[arp_wait[t].ip])
    /\ [](\A t \in Waiters :
            arp_wait[t].pc = "ready" => arp_wait[t].ip \in DOMAIN arp_table)

HandleStep == call'.fn = "handle_packet" /\ <<call, arp_table, halted>>' # <<call, arp_table, halted>>

\* the ARP frame of a received packet that parses as one
ArpOf(packet) == parse_packet(packet).val.frame

IsArp(packet) ==
    parse_packet(packet).tag = "Ok" /\ parse_packet(packet).val.kind = "Arp"

\* C15: the table changes only when handle_packet handles an ARP frame whose
\* operation is Reply, by the insertion of sender_proto -> sender_hw; no
\* step removes a key.
C15_Write ==
    /\ arp_table' # arp_table =>
          /\ HandleStep
          /\ IsArp(call'.arg)
          /\ be16(ArpOf(call'.arg), 6) = 2
          /\ DOMAIN arp_table' = DOMAIN arp_table \cup {SubSeq(ArpOf(call'.arg), 15, 18)}
          /\ arp_table'[SubSeq(ArpOf(call'.arg), 15, 18)] = SubSeq(ArpOf(call'.arg), 9, 14)
          /\ \A ip \in DOMAIN arp_table \ {SubSeq(ArpOf(call'.arg), 15, 18)} :
                arp_table'[ip] = arp_table[ip]
    /\ DOMAIN arp_table \subseteq DOMAIN arp_table'

\* C15: the ARP table is modified only by write_mac for Reply frames, and an
\* IP once present stays present.
C15_Thm == [][C15_Write]_vars

\* an address was learned and a later Request left the table as it was
C15_Wit ==
    /\ REMOTE_IP \in DOMAIN arp_table
    /\ OtherIp \notin DOMAIN arp_table
    /\ call.fn = "handle_packet"
    /\ IsArp(call.arg)
    /\ be16(ArpOf(call.arg), 6) = 1
    /\ SubSeq(ArpOf(call.arg), 15, 18) = OtherIp

\* the Ethernet rule of the specification
EthValid(p) ==
    /\ Len(p) >= 14
    /\ (be16(p, 12) = 33024 => Len(p) >= 18)
    /\ (IF be16(p, 12) = 33024 THEN 18 ELSE 14) + 4 <= Len(p)

\* the UDP rule of the specification
UdpValid(p) == Len(p) >= 8 /\ be16(p, 4) >= 8 /\ be16(p, 4) <= Len(p)

\* the IPv4 rule of the specification
Ipv4Valid(p) == Len(p) > 0 /\ (p[1] % 16) * 4 <= Len(p)

EthBody(p) ==
    SubSeq(p, (IF be16(p, 12) = 33024 THEN 18 ELSE 14) + 1, Len(p) - 4)

EthType(p) == IF be16(p, 12) = 33024 THEN be16(p, 16) ELSE be16(p, 12)

\* a frame that breaks the rule of one of the four layers
Malformed(p) ==
    \/ ~EthValid(p)
    \/ EthType(p) = 2054 /\ Len(EthBody(p)) < 28
    \/ /\ EthType(p) = 2048
       /\ \/ ~Ipv4Valid(EthBody(p))
          \/ /\ Len(EthBody(p)) >= 10
             /\ EthBody(p)[10] = 17
             /\ ~UdpValid(SubSeq(EthBody(p), (EthBody(p)[1] % 16) * 4 + 1,
                                 Len(EthBody(p))))

\* C16: handle_packet of a malformed frame returns without changing the ARP
\* table, transmitting, exiting or panicking.
C16_Claim ==
    [][(HandleStep /\ Malformed(call'.arg)) =>
          /\ arp_table' = arp_table
          /\ halted' = "run"
          /\ call'.res.val = <<>>]_vars

(* ---------------------------------------------------------------- C17..C20 *)
\* C17: EthernetFrame::new accepts a buffer exactly when length >= 14,
\* length >= 18 if bytes 12-13 are 0x8100, and payload_start + 4 <= length;
\* every other buffer is rejected with InvalidEthernetFrame.
C17_Claim ==
    call.fn = "EthernetFrame::new" =>
        /\ (call.res.tag = "Ok") = EthValid(call.arg)
        /\ ~EthValid(call.arg) =>
              call.res.tag = "Err" /\ call.res.val = "InvalidEthernetFrame"

\* C18: UdpFrame::new accepts a buffer exactly when the declared length of
\* bytes 4-5 is >= 8 and <= the buffer length; every other buffer is
\* rejected with InvalidUdpFrame.
C18_Claim ==
    call.fn = "UdpFrame::new" =>
        /\ (call.res.tag = "Ok") = UdpValid(call.arg)
        /\ ~UdpValid(call.arg) =>
              call.res.tag = "Err" /\ call.res.val = "InvalidUdpFrame"

\* C19: data() of an accepted buffer returns bytes 8..declared_length and
\* does not panic or read outside the buffer.
C19_Claim ==
    call.fn = "UdpFrame::data" =>
        /\ call.res.tag = "Ok"
        /\ be16(call.arg, 4) <= Len(call.arg)
        /\ call.res.val = SubSeq(call.arg, 9, be16(call.arg, 4))
        /\ Len(call.res.val) = be16(call.arg, 4) - 8

\* C20: Ipv4Frame::new rejects a buffer exactly when it is empty or IHL * 4
\* exceeds its length: [] and [0xFF] are rejected, [0x11, 0x11, 0x11, 0x11]
\* is accepted.
C20_Thm ==
    call.fn = "Ipv4Frame::new" =>
        /\ (call.res.tag = "Err") = ~Ipv4Valid(call.arg)
        /\ call.res.tag \in {"Ok", "Err"}
        /\ call.arg \in {<<>>, <<255>>} => call.res.tag = "Err"
        /\ call.arg = <<17, 17, 17, 17>> => call.res.tag = "Ok"

\* the header of [0x11, 0x11, 0x11, 0x11] fills the buffer, which is accepted
C20_Wit ==
    /\ call.fn = "Ipv4Frame::new"
    /\ call.arg = <<17, 17, 17, 17>>
    /\ call.res.tag = "Ok"

(* ---------------------------------------------------------------- C21..C24 *)
\* C21: parse_packet validates the Ethernet frame, reads the ether_type at
\* bytes 12-13, or 16-17 behind a 0x8100 tag, and yields Arp for 0x0806,
\* Ipv4 for 0x0800 and Unknown(ether_type) otherwise; the inner parser gets
\* the bytes between the ether_type and the last 4 bytes; an invalid
\* Ethernet or inner frame yields an error.
C21_Thm ==
    call.fn = "parse_packet" =>
        LET p == call.arg
            r == call.res
            off == IF Len(p) >= 14 /\ p[13] = 129 /\ p[14] = 0 THEN 16 ELSE 12
            et == p[off + 1] * 256 + p[off + 2]
            body == SubSeq(p, off + 3, Len(p) - 4)
        IN  IF EthernetFrame_new(p).tag = "Err"
            THEN r.tag = "Err" /\ r.val = "Ethernet"
            ELSE IF et = 2054
            THEN IF Len(body) < 28
                 THEN r.tag = "Err" /\ r.val = "Arp"
                 ELSE r.tag = "Ok" /\ r.val.kind = "Arp" /\ r.val.frame = body
            ELSE IF et = 2048
            THEN IF Len(body) = 0 \/ (body[1] % 16) * 4 > Len(body)
                 THEN r.tag = "Err" /\ r.val = "Ipv4"
                 ELSE r.tag = "Ok" /\ r.val.kind = "Ipv4" /\ r.val.frame = body
            ELSE r.tag = "Ok" /\ r.val.kind = "Unknown" /\ r.val.ether_type = et

\* a tagged frame was parsed as ARP
C21_Wit ==
    /\ call.fn = "parse_packet"
    /\ Len(call.arg) >= 18
    /\ has_dot1q(call.arg)
    /\ call.res.tag = "Ok"
    /\ call.res.val.kind = "Arp"
    /\ Len(call.res.val.frame) = 28

\* C22: for every ArpFrameParams p and pair of MAC addresses, parse_packet of
\* generate_ethernet_frame with ether_type 0x0806 and payload
\* generate_arp_frame(p) is the Arp variant, and its decoded fields (htype,
\* ptype, hlen, plen, operation, the four addresses) equal those of p.
C22_Thm ==
    call.fn = "arp_round_trip" =>
        /\ call.res.tag = "Ok"
        /\ \A field \in DOMAIN call.arg.params :
               call.res.val[field] = call.arg.params[field]
        /\ DOMAIN call.res.val = DOMAIN call.arg.params

\* a Request with unusual type and length fields went through the round trip
C22_Wit ==
    /\ call.fn = "arp_round_trip"
    /\ call.arg.params.operation = "Request"
    /\ call.arg.params.hardware_type = 65535
    /\ call.arg.params.protocol_address_length = 0
    /\ call.arg.params.sender_protocol_address # call.arg.params.target_protocol_address
    /\ call.arg.dest_mac = Broadcast
    /\ call.res.tag = "Ok"

\* the CRC-32 of the catalogue, computed most significant bit first: the
\* register starts at 0xFFFFFFFF, takes each input byte bit-reversed into
\* its top byte, is shifted left eight times, xor-ed with 0x04C11DB7 when a
\* one falls out, and is bit-reversed and complemented at the end
C24_Shl(w) == W(((w.hi * 2) % 65536) + (w.lo \div 32768), (w.lo * 2) % 65536)

C24_Shift(w) ==
    IF w.hi >= 32768 THEN xor(C24_Shl(w), W(1217, 7607)) ELSE C24_Shl(w)

C24_Byte ==
    [w \in U32, b \in 0..255 |->
        LET w0 == xor(w, W(rev_bits(b, 8) * 256, 0))
        IN  C24_Shift(C24_Shift(C24_Shift(C24_Shift(
                C24_Shift(C24_Shift(C24_Shift(C24_Shift(w0))))))))]

C24_Ref(bytes) ==
    LET reg[w \in U32, a \in 1..(Len(bytes) + 1), b \in 0..Len(bytes)] ==
            IF a > b THEN w
            ELSE IF a = b THEN C24_Byte[w, bytes[a]]
            ELSE reg[reg[w, a, (a + b) \div 2], ((a + b) \div 2) + 1, b]
        last == reg[W(65535, 65535), 1, Len(bytes)]
    IN  W(65535 - rev_bits(last.lo, 16), 65535 - rev_bits(last.hi, 16))

\* C23: generate_ethernet_frame returns dest_mac, source_mac, the
\* big-endian ether_type and the payload, zero-padded to 60 bytes when
\* shorter, followed by the big-endian CRC-32 of all preceding bytes; its
\* length is max(60, 14 + payload length) + 4, 64 for a 10-byte payload.
C23_Thm ==
    call.fn = "generate_ethernet_frame" =>
        LET a == call.arg
            r == call.res
            n == Len(a.payload)
            body == IF 14 + n < 60 THEN 60 ELSE 14 + n
            fcs == C24_Ref(SubSeq(r, 1, body))
        IN  /\ Len(r) = body + 4
            /\ SubSeq(r, 1, 6) = a.dest_mac
            /\ SubSeq(r, 7, 12) = a.source_mac
            /\ r[13] * 256 + r[14] = a.ether_type
            /\ SubSeq(r, 15, 14 + n) = a.payload
            /\ \A i \in (15 + n)..body : r[i] = 0
            /\ r[body + 1] * 256 + r[body + 2] = fcs.hi
            /\ r[body + 3] * 256 + r[body + 4] = fcs.lo
            /\ (n = 10 => Len(r) = 64)

\* a frame with a 10-byte payload was padded
C23_Wit ==
    /\ call.fn = "generate_ethernet_frame"
    /\ Len(call.arg.payload) = 10
    /\ Len(call.res) = 64
    /\ call.res[24] # 0
    /\ call.res[25] = 0

\* C24: eth_crc is the reflected CRC-32 (polynomial 0x04C11DB7, that is
\* 0xEDB88320 bit-reversed, init and xor-out 0xFFFFFFFF) of every byte
\* sequence, a 32-bit value; on "123456789" it is 0xCBF43926.
C24_Thm ==
    /\ poly = W(60856, 33568)
    /\ call.fn = "eth_crc" =>
           /\ call.res \in U32
           /\ call.res = C24_Ref(call.arg)
           /\ (call.arg = CheckInput => call.res = W(52212, 14630))

\* the CRC of the check input was computed
C24_Wit ==
    /\ call.fn = "eth_crc"
    /\ call.arg = CheckInput
    /\ call.res = W(52212, 14630)

(* ---------------------------------------------------------------- C25..C27 *)
\* C25: for Terminate, TD(a) and QH(a) with a 16-byte aligned, writing the
\* link into a word with set_link_pointer, whatever the word held, and
\* decoding it with get_link_pointer returns the same variant and address;
\* written into a zero word the raw value is a for TD(a), a | 0x2 for QH(a)
\* and 0x1 for Terminate.
C25_Thm ==
    call.fn = "set_link_pointer" =>
        LET v == call.arg.val
            r == call.res
        IN  /\ r.link.kind = v.kind
            /\ v.kind # "None" => r.link.ptr = v.ptr
            /\ call.arg.dest = ZeroWord =>
                   r.word = CASE v.kind = "TD" -> v.ptr
                              [] v.kind = "QH" -> W(v.ptr.hi, v.ptr.lo + 2)
                              [] v.kind = "None" -> W(0, 1)

\* TD(0xDEADBE00) was written over a word that held a QH link with the
\* reserved bits set
C25_Wit ==
    /\ call.fn = "set_link_pointer"
    /\ call.arg.dest = AllOnes
    /\ call.arg.val = LP_TD(W(57005, 48640))
    /\ call.res.link = LP_TD(W(57005, 48640))

\* bit i of a word, and the len bits from bit off on, read by division
C26_Bit(w, i) == IF i < 16 THEN (w.lo \div 2 ^ i) % 2 ELSE (w.hi \div 2 ^ (i - 16)) % 2

RECURSIVE C26_Bits(_, _, _)
C26_Bits(w, off, len) ==
    IF len = 0 THEN 0 ELSE C26_Bit(w, off) + 2 * C26_Bits(w, off + 1, len - 1)

\* word, first bit and width of each field in the TD layout
C26_Layout ==
    [spd |-> <<1, 29, 1>>,
     err_counter |-> <<1, 27, 2>>,
     low_speed |-> <<1, 26, 1>>,
     isochronus_select |-> <<1, 25, 1>>,
     interrupt_on_complete |-> <<1, 24, 1>>,
     status |-> <<1, 16, 8>>,
     actlen |-> <<1, 0, 11>>,
     data_toggle |-> <<2, 19, 1>>,
     endpoint |-> <<2, 15, 4>>,
     address |-> <<2, 8, 7>>,
     pid |-> <<2, 0, 8>>]

\* C26: for every TD field the getter after the setter returns the value
\* set, and the value sits at the bits of the TD layout: word 1 actlen 0-10,
\* status 16-23, IOC 24, isochronous 25, low-speed 26, error counter 27-28,
\* SPD 29; word 2 PID 0-7, address 8-14, endpoint 15-18, data toggle 19;
\* word 3 the data pointer.
C26_Thm ==
    call.fn = "set_field" =>
        LET f == call.arg.field
            v == call.arg.val
            r == call.res
        IN  /\ r.tag = "Ok"
            /\ r.got = v
            /\ IF f = "data" THEN r.td.w3 = v
               ELSE LET at == C26_Layout[f]
                        word == IF at[1] = 1 THEN r.td.w1 ELSE r.td.w2
                        bits == C26_Bits(word, at[2], at[3])
                    IN  IF at[3] = 1 THEN bits = (IF v THEN 1 ELSE 0)
                        ELSE bits = v

\* endpoint 9, whose bits lie on both halves of word 2, was set in a
\* descriptor that was all ones
C26_Wit ==
    /\ call.fn = "set_field"
    /\ call.arg.field = "endpoint"
    /\ call.arg.val = 9
    /\ call.arg.td.w2 = AllOnes
    /\ call.res.tag = "Ok"
    /\ call.res.got = 9

\* C27: for 0 <= len <= 1280, set_maxlen(len) stores len - 1 in bits 21-31
\* of TD word 2, or 0x7FF when len = 0, and maxlen() returns len; the stored
\* value fits in 11 bits and no nonzero len is stored as 0x7FF.
C27_Thm ==
    call.fn = "set_maxlen" /\ call.arg.len <= 1280 =>
        LET len == call.arg.len
            r == call.res
            stored == r.td.w2.hi \div 32
        IN  /\ r.tag = "Ok"
            /\ stored = (IF len = 0 THEN 2047 ELSE len - 1)
            /\ r.got = len
            /\ stored \in 0..2047
            /\ len # 0 => stored # 2047
            /\ r.td.w2.hi % 32 = call.arg.td.w2.hi % 32
            /\ r.td.w2.lo = call.arg.td.w2.lo

\* the longest length, 1280, was stored as 0x4FF
C27_Wit ==
    /\ call.fn = "set_maxlen"
    /\ call.arg.len = 1280
    /\ call.res.tag = "Ok"
    /\ call.res.td.w2.hi \div 32 = 1279
    /\ call.res.got = 1280

C28_Fields(buf, d) ==
    /\ get_link_pointer(d.w0) = LP_None
    /\ d.w0 = W(0, 1)
    /\ status(d) = 128
    /\ low_speed(d)
    /\ maxlen(d) = buf.len
    /\ td_data(d) = buf.ptr

C28_Call ==
    call.fn = "generate_td" =>
        /\ call.res.tag = "Err" <=> call.arg.buf.len > 1024
        /\ call.res.tag = "Err" => call.res.val = "InvalidPacketErr"
        /\ call.arg.buf.len <= 1024 =>
               IF call.arg.address <= 126 /\ call.arg.endpoint < 16
               THEN call.res.tag = "Ok" /\ C28_Fields(call.arg.buf, call.res.val)
               ELSE call.res = AssertFailed

C28_Queued ==
    \A s \in Slots :
        owner[s] # "free" =>
            /\ maxlen(td[s]) <= 1024
            /\ status(td[s]) = 128
            /\ low_speed(td[s])
            /\ td_data(td[s]) = BufAddr(s)

C28_Refused ==
    halted' = "panic" => UNCHANGED <<qh, td, owner, bufs, last_id, fut, woken>>

C29_Claim ==
    call.fn = "Uhci_new" =>
        /\ \A i \in DOMAIN call.res.frame_list :
               LET w == call.res.frame_list[i]
               IN  /\ ~get_bit(w, 0)
                   /\ get_bit(w, 1)
                   /\ get_bits(w, 2, 2) = 0
                   /\ get_bits(w, 4, 28) = Shr4(call.arg.queue)
        /\ get_link_pointer(call.res.master_queue.head) = LP_None
        /\ get_link_pointer(call.res.master_queue.element) = LP_None

\* the port writes of the bring-up in the order Uhci::demo makes them
C30_Order ==
    <<[reg |-> "USBCMD", val |-> 4], [reg |-> "USBCMD", val |-> 0],
      [reg |-> "USBCMD", val |-> 2], [reg |-> "FRBASEADD", val |-> FrameListAddr],
      [reg |-> "FRNUM", val |-> 0], [reg |-> "USBSTS", val |-> 31],
      [reg |-> "USBCMD", val |-> 193]>>

\* the order with FRNUM programmed before the frame-list base
C30_OrderClaimed ==
    <<[reg |-> "USBCMD", val |-> 4], [reg |-> "USBCMD", val |-> 0],
      [reg |-> "USBCMD", val |-> 2], [reg |-> "FRNUM", val |-> 0],
      [reg |-> "FRBASEADD", val |-> FrameListAddr], [reg |-> "USBSTS", val |-> 31],
      [reg |-> "USBCMD", val |-> 193]>>

C30_Follows(order) ==
    /\ Len(demo.writes) <= Len(order)
    /\ \A i \in 1..Len(demo.writes) :
           /\ demo.writes[i].reg = order[i].reg
           /\ demo.writes[i].val = order[i].val

\* write i + 1 is made at least n ticks after write i
C30_Apart(i, n) ==
    Len(demo.writes) > i => demo.writes[i + 1].at - demo.writes[i].at >= n

\* a write that sets the run bit comes after the frame-list base and the
\* status clear
C30_RunLast ==
    \A i \in 1..Len(demo.writes) :
        (demo.writes[i].reg = "USBCMD" /\ demo.writes[i].val % 2 = 1) =>
            /\ \E j \in 1..(i - 1) : demo.writes[j].reg = "FRBASEADD"
            /\ \E j \in 1..(i - 1) : demo.writes[j].reg = "USBSTS"

C31_Bit(v, i) == (v \div 2^i) % 2

\* v and w agree on every bit outside the set
C31_SameBut(v, w, bits) == \A i \in (0..15) \ bits : C31_Bit(v, i) = C31_Bit(w, i)

C31_Ops == <<"read", "write", "read", "write", "read", "write", "write", "read">>

C31_Log ==
    LET log == demo.log
        n == Len(log)
    IN  /\ n <= Len(C31_Ops)
        /\ \A i \in 1..n : log[i].op = C31_Ops[i]
        /\ n >= 2 => /\ C31_Bit(log[2].val, 9) = 1
                     /\ C31_SameBut(log[2].val, log[1].val, {9})
        /\ n >= 4 => /\ \A i \in {9, 8, 6, 3, 2, 1} : C31_Bit(log[4].val, i) = 0
                     /\ C31_SameBut(log[4].val, log[3].val, {9, 8, 6, 3, 2, 1})
        /\ n >= 7 => /\ C31_Bit(log[6].val, 1) = 1
                     /\ C31_SameBut(log[6].val, log[5].val, {1})
                     /\ C31_Bit(log[7].val, 2) = 1
                     /\ C31_SameBut(log[7].val, log[6].val, {2})
        /\ n = 8 => /\ Len(demo.enabled) = demo.port
                    /\ demo.enabled[demo.port]
                           = (C31_Bit(log[8].val, 2) = 1 /\ C31_Bit(log[8].val, 0) = 1)

\* the PORTSC accesses of a step come at least the slept ticks after the
\* access before: 50 ms before the reset is cleared, 5 ms before the connect
\* change is acknowledged, 5 ms before the read back
C31_Delays ==
    /\ (Len(demo.log) = 2 /\ Len(demo'.log) > 2) => tick - demo.at >= (50 * ResetFreq) \div 1000
    /\ (Len(demo.log) = 4 /\ Len(demo'.log) > 4) => tick - demo.at >= (5 * ResetFreq) \div 1000
    /\ (Len(demo.log) = 7 /\ Len(demo'.log) > 7) => tick - demo.at >= (5 * ResetFreq) \div 1000

C32_Submitted == fut.live \/ last_id > 0 \/ \E s \in Slots : owner[s] # "free"

C32_OnlyAfterTrue ==
    (C32_Submitted \/ demo.pc \in {"set_address", "transfer"}) =>
        /\ demo.enabled # <<>>
        /\ demo.enabled[Len(demo.enabled)]
        /\ Len(demo.enabled) = demo.port

C32_Skips ==
    (Len(demo'.enabled) > Len(demo.enabled) /\ ~demo'.enabled[Len(demo'.enabled)]) =>
        /\ UNCHANGED <<qh, td, owner, bufs, last_id, fut>>
        /\ demo'.pc = IF demo.port < 2 THEN "ports" ELSE "done"
        /\ ~C32_Submitted'

\* C32: a reset_port that returned false is followed by no submission for
\* that port, demo going on to the next port (or ending after the last);
\* TDs are submitted only after a reset_port that returned true.
C32_Thm == []C32_OnlyAfterTrue /\ [][C32_Skips]_vars

\* the first port was skipped, the second has a device and SET_ADDRESS is
\* queued for it
C32_Wit ==
    /\ demo.enabled = <<FALSE, TRUE>>
    /\ fut.live
    /\ Len(fut.work) = 2
    /\ qh.element # W(0, 1)

\* C34: ArpFrame::new accepts exactly the buffers of 28 bytes or more, and
\* every accessor of an accepted frame reads inside its first 28 bytes.
C34_Thm ==
    call.fn = "ArpFrame::new" =>
        LET b == call.arg
            new == call.res.new
            reads == call.res.reads
            head == SubSeq(b, 1, 28)
        IN  /\ new.tag = "Ok" <=> Len(b) >= 28
            /\ new.tag # "Ok" => new = Err("InvalidArpFrame")
            /\ new.tag = "Ok" =>
                   /\ \A f \in DOMAIN reads : reads[f].tag = "Ok"
                   /\ reads.htype.val = SubSeq(head, 1, 2)
                   /\ reads.ptype.val = SubSeq(head, 3, 4)
                   /\ reads.hardware_address_length.val = SubSeq(head, 5, 5)
                   /\ reads.protocol_address_length.val = SubSeq(head, 6, 6)
                   /\ reads.operation.val = SubSeq(head, 7, 8)
                   /\ reads.sender_hardware_address.val = SubSeq(head, 9, 14)
                   /\ reads.sender_protocol_address.val = SubSeq(head, 15, 18)
                   /\ reads.target_hardware_address.val = SubSeq(head, 19, 24)
                   /\ reads.target_protocol_address.val = SubSeq(head, 25, 28)
                   /\ htype(b) = head[1] * 256 + head[2]
                   /\ ptype(b) = head[3] * 256 + head[4]
                   /\ hardware_address_length(b) = head[5]
                   /\ protocol_address_length(b) = head[6]
                   /\ operation(b) = ArpOperation_try_from(head[7] * 256 + head[8])
                   /\ sender_hardware_address(b) = SubSeq(head, 9, 14)
                   /\ sender_protocol_address(b) = SubSeq(head, 15, 18)
                   /\ target_hardware_address(b) = SubSeq(head, 19, 24)
                   /\ target_protocol_address(b) = SubSeq(head, 25, 28)

\* a buffer of exactly 28 bytes was accepted and read to its last byte
C34_Wit ==
    /\ call.fn = "ArpFrame::new"
    /\ Len(call.arg) = 28
    /\ call.res.new.tag = "Ok"
    /\ call.res.reads.target_protocol_address.val = <<175, 182, 189, 196>>

\* C35: ArpOperation::try_from maps 1 to Request, 2 to Reply and every other
\* u16 v to UnknownArpOperation(v); u16::from of a decoded operation is the
\* value it was decoded from.
C35_Thm ==
    call.fn = "ArpOperation::try_from" =>
        LET v == call.arg
            r == call.res.op
        IN  /\ r.tag \in {"Ok", "Err"}
            /\ v = 1 <=> (r.tag = "Ok" /\ r.val = "Request")
            /\ v = 2 <=> (r.tag = "Ok" /\ r.val = "Reply")
            /\ v \notin {1, 2} <=> r.tag = "Err"
            /\ r.tag = "Err" => r.val = v
            /\ r.tag = "Ok" => call.res.back = v

\* 0xFFFF was decoded to the error that carries it
C35_Wit ==
    /\ call.fn = "ArpOperation::try_from"
    /\ call.arg = 65535
    /\ call.res.op = Err(65535)

\* the counter moves by one, in a step that does nothing but wake and remove
\* the entries due at the new value, in the order of the list
C36_OnlyOnTick ==
    tick' # tick =>
        /\ tick' = tick + 1
        /\ UNCHANGED <<sleeper, uhci_vars, mutex_vars, net_vars, demo>>
        /\ \E k \in 0..Len(wakeup_list) :
               /\ wakeup_list' = SubSeq(wakeup_list, k + 1, Len(wakeup_list))
               /\ \A i \in 1..Len(wakeup_list) : wakeup_list[i].deadline <= tick' <=> i <= k
               /\ woken' = woken \cup {wakeup_list[i].waker : i \in 1..k}

\* a read returns the counter, which is no less than any read still held
C36_Reads ==
    \A t \in Sleepers :
        (sleeper[t].pc = "idle" /\ sleeper'[t].pc = "read") =>
            /\ sleeper'[t].now = tick
            /\ \A u \in Sleepers : sleeper[u].pc # "idle" => sleeper[u].now <= sleeper'[t].now

\* C36: only the tick interrupt changes the counter, by exactly one and
\* before it drains the wakeup list with the new value; the values tick()
\* returns never decrease.
C36_Thm == [][C36_OnlyOnTick /\ C36_Reads /\ tick' >= tick]_vars

\* two sleepers hold reads of the counter taken on either side of a tick
C36_Wit ==
    \E t, u \in Sleepers :
        /\ sleeper[t].pc # "idle"
        /\ sleeper[u].pc # "idle"
        /\ sleeper[t].now < sleeper[u].now
        /\ sleeper[u].now = tick

(* ------------------------------------------------------ control transfers *)
\* the control transfers of the driver
TransferKinds ==
    {"get_descriptor", "set_address", "print_configurations",
     "set_configuration", "get_report"}

\* the setup packet each transfer puts in the buffer of its first TD
setup_packet(kind, addr, config) ==
    CASE kind = "get_descriptor" -> <<128, 6, 0, 1, 0, 0, 18, 0>>
      [] kind = "set_address" -> <<0, 5, addr, 0, 0, 0, 0, 0>>
      [] kind = "print_configurations" -> <<128, 6, 0, 2, 0, 0, 128, 0>>
      [] kind = "set_configuration" -> <<0, 9, config, 0, 0, 0, 0, 0>>
      [] kind = "get_report" -> <<161, 1, 0, 0, 0, 0, 8, 0>>

\* the stages of one transfer
transfer_stages(kind, addr) ==
    CASE kind = "get_descriptor" -> Uhci_get_descriptor(addr)
      [] kind = "set_address" -> Uhci_set_address(addr)
      [] kind = "print_configurations" -> Uhci_print_configurations(addr)
      [] kind = "set_configuration" -> Uhci_set_configuration(addr)
      [] kind = "get_report" -> demo_get_report

\* the TDs of one transfer as they are handed to append_work
transfer_tds(kind, addr, config) ==
    LET stages == transfer_stages(kind, addr)
    IN  [kind |-> kind,
         setup |-> setup_packet(kind, addr, config),
         tds |-> [i \in 1..Len(stages) |-> stage_td(stages[i], BufAddr(i))]]

\* the transfers one call makes: print_configurations reads the device
\* descriptor first and then one configuration for each the device reports
call_transfers(kind, addr, config, n) ==
    IF kind = "print_configurations"
    THEN <<transfer_tds("get_descriptor", addr, config)>>
         \o [i \in 1..n |-> transfer_tds(kind, addr, config)]
    ELSE <<transfer_tds(kind, addr, config)>>

\* the number of configurations a device reports, a u8
MaxConfigurations == 2

\* the address argument: the valid device addresses and the two beyond them
CallAddresses == (0..126) \cup {127, 255}

\* the config argument of set_configuration
CallConfigs == {0, 1}

\* one call of a transfer method, up to the append_work of its TDs; a TD
\* that generate_td or a setter refuses ends the call in expect()
submit_transfer(kind, addr, config, n) ==
    /\ call.fn = "none"
    /\ \E made \in {call_transfers(kind, addr, config, n)} :
       LET ok == \A i \in 1..Len(made) :
                    \A j \in 1..Len(made[i].tds) : made[i].tds[j].tag = "Ok"
       IN  /\ call' = [fn |-> kind,
                       arg |-> [address |-> addr, config |-> config, n |-> n],
                       res |-> IF ok
                               THEN [tag |-> "Ok",
                                     val |-> [i \in 1..Len(made) |->
                                                [kind |-> made[i].kind,
                                                 setup |-> made[i].setup,
                                                 tds |-> [j \in 1..Len(made[i].tds) |->
                                                            made[i].tds[j].val]]]]
                               ELSE [tag |-> "Panic", val |-> <<>>]]
           /\ halted' = IF ok THEN halted ELSE "panic"
    /\ UNCHANGED <<woken, uhci_vars, time_vars, mutex_vars, sleeper>>
    /\ UNCHANGED <<arp_table, arp_wait>>
    /\ UNCHANGED demo

NextCtl ==
    /\ call.fn = "none"
    /\ \E kind \in TransferKinds : \E addr \in CallAddresses :
           \E config \in CallConfigs : \E n \in 0..MaxConfigurations :
               /\ kind # "print_configurations" => n = 0
               /\ kind # "set_configuration" => config = 1
               /\ kind = "get_report" => addr = ADDRESS
               /\ submit_transfer(kind, addr, config, n)

SpecCtl == Init /\ [][NextCtl]_vars

\* the transfers of the call on record
C33_Transfers ==
    IF call.fn \in TransferKinds /\ call.res.tag = "Ok"
    THEN {call.res.val[i] : i \in 1..Len(call.res.val)}
    ELSE {}

\* wLength of the setup packet: the length of the data stage it announces
C33_wLength(t) == t.setup[7] + 256 * t.setup[8]

C33_Shape(t) ==
    LET first == t.tds[1]
        last == t.tds[Len(t.tds)]
    IN  /\ Len(t.tds) >= 2
        /\ pid(first) = 45
        /\ Len(t.setup) = 8
        /\ maxlen(first) = 8
        /\ ~data_toggle(first)
        /\ maxlen(last) = 0
        /\ data_toggle(last)
        /\ pid(last) \in {105, 225}
        /\ C33_wLength(t) = 0 => Len(t.tds) = 2
        /\ C33_wLength(t) > 0 =>
               /\ Len(t.tds) = 3
               /\ pid(t.tds[2]) \in {105, 225}
               /\ maxlen(t.tds[2]) = C33_wLength(t)
               /\ pid(last) # pid(t.tds[2])

\* C33: every control transfer begins with a SETUP TD (PID 0x2D) with an
\* 8-byte setup packet and data toggle 0 and ends with a zero-length TD with
\* data toggle 1; with a data stage it has exactly three TDs and the last
\* TD's direction is opposite to the data TD's.
C33_Thm == \A t \in C33_Transfers : C33_Shape(t)

\* a call of print_configurations that read two configurations: three
\* transfers with a data stage each
C33_Wit ==
    /\ call.fn = "print_configurations"
    /\ call.res.tag = "Ok"
    /\ Len(call.res.val) = 3
    /\ \A i \in 1..3 : Len(call.res.val[i].tds) = 3 /\ pid(call.res.val[i].tds[2]) = 105

\* C38: for every address 0..0x7E, every TD submitted by get_descriptor,
\* set_configuration and print_configurations carries that address and
\* endpoint 0.
C38_Claim ==
    (/\ call.fn \in {"get_descriptor", "set_configuration", "print_configurations"}
     /\ call.arg.address \in 0..126)
    => /\ call.res.tag = "Ok"
       /\ \A i \in 1..Len(call.res.val) :
              \A j \in 1..Len(call.res.val[i].tds) :
                  /\ address(call.res.val[i].tds[j]) = call.arg.address
                  /\ endpoint(call.res.val[i].tds[j]) = 0

(* ------------------------------------- append_work against the controller *)
\* The controller reads and writes the descriptors by DMA while the CPU
\* runs append_work (it is not stopped, lines 366-367), so the read of the
\* last TD's status and the write that hooks the new chain in are two steps
\* with the controller's steps between them.

\* append_work, lines 364-369: chain_tds, then last_entry() and the test
\* of its status; call holds the boxes and the branch that was chosen
append_work_read(work) ==
    /\ halted = "run"
    /\ call.fn = "none"
    /\ ~fut.live
    /\ last_id + Len(work) <= MaxId
    /\ LET made == [s \in SeqRange(work) |->
                       generate_td(ADDRESS, 0, "Setup",
                                   [len |-> SetupLen, ptr |-> BufAddr(s)]).val]
           fresh == [s \in Slots |-> IF s \in SeqRange(work) THEN made[s] ELSE td[s]]
           last == IF DOMAIN bufs = {} THEN 0 ELSE bufs[MaxOf(DOMAIN bufs)]
       IN  /\ td' = chain_tds(fresh, work)
           /\ call' = [fn |-> "append_work", arg |-> work,
                       res |-> [tag |-> IF last # 0 /\ (status(td[last]) \div 128) % 2 = 1
                                        THEN "link" ELSE "element",
                                val |-> last]]
    /\ owner' = [s \in Slots |-> IF s \in SeqRange(work) THEN "work" ELSE owner[s]]
    /\ UNCHANGED <<qh, bufs, last_id, fut, ret, dropped, tick, wakeup_list, woken>>
    /\ UNCHANGED <<mutex_vars, sleeper, arp_table, arp_wait, halted>>
    /\ UNCHANGED demo

\* append_work, lines 370-397: the write of the branch chosen, the ids,
\* the map and the future
append_work_write ==
    /\ call.fn = "append_work"
    /\ LET work == call.arg
           first == LP_TD(TdAddr(work[1]))
           ids == new_ids(Len(work))
       IN  /\ IF call.res.tag = "link"
              THEN /\ td' = [td EXCEPT ![call.res.val] = td_set_link_pointer(@, first)]
                   /\ qh' = qh
              ELSE /\ qh' = [qh EXCEPT !.element = set_link_pointer(@, first)]
                   /\ td' = td
           /\ last_id' = last_id + Len(work)
           /\ bufs' = extend(bufs, ids, work)
           /\ fut' = [live |-> TRUE, ids |-> ids, work |-> work]
           /\ owner' = [s \in Slots |-> IF s \in SeqRange(work) THEN "queue" ELSE owner[s]]
    /\ woken' = woken \cup {UsbTask}
    /\ call' = [fn |-> "none", arg |-> <<>>, res |-> [tag |-> "none"]]
    /\ UNCHANGED <<ret, dropped, tick, wakeup_list>>
    /\ UNCHANGED <<mutex_vars, sleeper, arp_table, arp_wait, halted>>
    /\ UNCHANGED demo

NextRace ==
    \/ \E n \in 1..MaxWork : \E work \in FreeWork(n) : append_work_read(work)
    \/ append_work_write
    \/ poll_pending
    \/ poll_ready
    \/ drop_future
    \/ free_returned
    \/ hw_service(0)
    \/ on_tick

SpecRace == Init /\ [][NextRace]_vars

\* the slots the controller reaches from a link word within n links
RECURSIVE Reachable(_, _)
Reachable(word, n) ==
    IF n = 0 \/ get_link_pointer(word).kind # "TD" THEN {}
    ELSE LET s == SlotAt(get_link_pointer(word).ptr)
         IN  {s} \cup Reachable(td[s].w0, n - 1)

\* C37: no submission is lost: once append_work has returned, the first TD
\* of the new chain, while the controller has not serviced it, is reachable
\* from the master QH's element link, whatever the controller did meanwhile
\* and whether or not TDs of a dropped future were still in the map.
C37_Claim ==
    (fut.live /\ get_bit(td[fut.work[1]].w1, 23))
        => fut.work[1] \in Reachable(qh.element, NumSlots)

\* C39: for every buffer accepted by Ipv4Frame::new, parse_ipv4 returns a
\* value (Udp, Unknown or an InvalidUdpFrame error) without panicking.
C39_Claim == call.fn = "parse_ipv4" => call.res.tag \in {"Ok", "Err"}

\* the ARP frame of the packet on record and the frames its handling sent
C40_Frame == parse_packet(call.arg).val.frame

C40_IsArp ==
    /\ parse_packet(call.arg).tag = "Ok"
    /\ parse_packet(call.arg).val.kind = "Arp"

\* the reply to the request on record
C40_Reply(sent) ==
    /\ Len(sent) = 1
    /\ sent[1].dest_mac = sender_hardware_address(C40_Frame)
    /\ sent[1].source_mac = OwnMac
    /\ sent[1].ether_type = 2054
    /\ Len(sent[1].payload) = 28
    /\ be16(sent[1].payload, 6) = 2
    /\ sender_hardware_address(sent[1].payload) = OwnMac
    /\ sender_protocol_address(sent[1].payload) = STATIC_IP
    /\ target_hardware_address(sent[1].payload) = sender_hardware_address(C40_Frame)
    /\ target_protocol_address(sent[1].payload) = sender_protocol_address(C40_Frame)

\* C40: handle_arp_frame transmits a reply only for a Request whose target
\* protocol address is STATIC_IP; the reply is a Reply from (own MAC,
\* STATIC_IP) to the requester's addresses, sent to the requester's MAC;
\* nothing is transmitted for a Reply or an unknown operation.
C40_Claim ==
    (call.fn = "handle_packet" /\ C40_IsArp) =>
        IF /\ be16(C40_Frame, 6) = 1
           /\ target_protocol_address(C40_Frame) = STATIC_IP
        THEN C40_Reply(call.res.val)
        ELSE call.res.val = <<>>

====
